---------------------------- MODULE Spec2Model ----------------------------
(***************************************************************************)
(* Sentinel: tenant-aware event storage.                                   *)
(*                                                                         *)
(* The module models the two event stores (the in-memory EventBuffer and   *)
(* the RedisEventBuffer on a Redis sorted set), the ingestion route and    *)
(* the debug routes of the backend service.                                *)
(*                                                                         *)
(*   Spec     the store harness: every call of the store interface is      *)
(*            made on both implementations with the same argument at the   *)
(*            same clock value, Redis may be unreachable.                  *)
(*   SpecApp  the backend service: HTTP requests on the routes, each       *)
(*            route using the store singleton its module imports.          *)
(***************************************************************************)
EXTENDS Integers, Sequences, FiniteSets, TLC

(***************************************************************************)
(* JavaScript values.                                                      *)
(* A number is a record [k, v]: k = "num" carries the value v, "nan" is    *)
(* NaN, "null" is what JSON gives for NaN, "missing" is an absent field.   *)
(* The value of a number is the fraction v / d with d > 0.                 *)
(* A string field is a TLA+ string, Missing stands for an absent field.    *)
(* A timestamp string is a record [k, ms]: "iso" is the ISO-8601 text of   *)
(* the instant ms, "bad" a text Date cannot parse, "empty" the empty       *)
(* string and "missing" an absent field.                                   *)
(***************************************************************************)
Num(v) == [k |-> "num", v |-> v, d |-> 1]
Frac(v, d) == [k |-> "num", v |-> v, d |-> d]
NaN == [k |-> "nan", v |-> 0, d |-> 1]
Null == [k |-> "null", v |-> 0, d |-> 1]
Absent == [k |-> "missing", v |-> 0, d |-> 1]
Missing == "<missing>"

Iso(ms) == [k |-> "iso", ms |-> ms]
BadTs == [k |-> "bad", ms |-> 0]
EmptyTs == [k |-> "empty", ms |-> 0]
MissingTs == [k |-> "missing", ms |-> 0]

\* a variant of !x in which the empty string is truthy
Falsy_absentOnly(s) == s = Missing

\* !x for a string field: the empty string and an absent field are falsy
Falsy(s) == s \in {"", Missing}

\* !x for the timestamp field
FalsyTs(t) == t.k \in {"empty", "missing"}

\* a >= b on numbers: false as soon as one side is NaN
JsGE(a, b) == a.k = "num" /\ b.k = "num" /\ a.v * b.d >= b.v * a.d

\* new Date(timestamp).getTime(): epoch milliseconds, NaN for an invalid date
DateGetTime(t) == IF t.k = "iso" THEN Num(t.ms) ELSE NaN

\* Math.ceil(a / b) for positive integers
CeilDiv(a, b) == (a + b - 1) \div b

(***************************************************************************)
(* Bounds and inputs.                                                      *)
(***************************************************************************)
\* largest number of entries a store holds in the model
MaxEvents == 2

\* constructor arguments of both stores
RetentionMinutes == 1

retentionMs == RetentionMinutes * 60 * 1000

\* the clock values at which calls are made
Instants == {120000, 120001, 180000, 240000}

StartMs == 120000

\* windowMinutes arguments
Windows == {0, 1, 2}

Ev(ts, tenant, ep, status, lat) ==
    [timestamp |-> ts, tenant_id |-> tenant, endpoint |-> ep, method |-> "GET",
     status_code |-> status, latency_ms |-> lat, service |-> "svc"]

NoEvent == Ev(MissingTs, Missing, Missing, Absent, Absent)

\* The events of the model.  Events of equal timestamp are listed in the
\* byte order of their JSON texts (keys in the order of StoredEvent).
EventPool ==
    << Ev(Iso(59999), "a", "/x", Num(200), Num(100)),
       Ev(Iso(60000), "", "/x", Num(200), Num(100)),
       Ev(Iso(60000), "a", "/x", Num(200), Num(100)),
       Ev(Iso(60000), "a", "/x", Num(500), Num(100)),
       Ev(Iso(120000), Missing, "/x", Num(200), Num(100)),
       Ev(Iso(120000), "a", "", Num(200), Num(100)),
       Ev(Iso(120000), "a", Missing, Num(200), Num(100)),
       Ev(Iso(120000), "b", "/x", Num(500), Num(300)),
       Ev(BadTs, "a", "/x", Num(200), Num(100)),
       Ev(EmptyTs, "a", "/x", Num(200), Num(100)),
       Ev(MissingTs, "a", "/x", Absent, Absent),
       NoEvent,
       Ev(Iso(59999), "b", "/x", Num(500), Num(51)),
       Ev(Iso(90000), "", "/x", Num(500), Num(100)),
       Ev(Iso(90000), "a", "/x", Num(500), Num(101)),
       Ev(Iso(90000), "b", "/x", Num(200), NaN),
       Ev(Iso(90000), "c", "/x", Num(404), Frac(401, 2)),
       Ev(Iso(90000), "c", "/x", Num(500), Num(-50)),
       Ev(Iso(90000), "c", "/x", Num(503), Absent),
       Ev(Iso(180000), "c", "/x", Num(500), Num(100)) >>

\* events handed to the store interface directly
StoreEvents == {EventPool[i] : i \in {1, 2, 3, 8, 9, 16}}

\* request bodies of POST /api/v1/events (NoEvent: an empty or null body)
RequestBodies == {EventPool[i] : i \in {3, 5, 6, 7, 8, 9, 10, 11, 12}}

\* largest number of events the store holds when the metrics are aggregated
MaxWindow == 3

\* the events the store holds when the metrics are aggregated: three
\* tenants and the empty tenant, status codes on both sides of 500, and
\* latencies that are whole, fractional (200.5), negative, NaN and absent
AggEvents == {EventPool[i] : i \in {1, 4, 8, 13, 14, 15, 16, 17, 18, 19}}

\* windowMinutes and limit arguments of the aggregation functions
AggWindows == {-1, 1, 2}

Limits == {-1, 0, 1, 2, 3}

(***************************************************************************)
(* Results of calls.  st is "ok" when the call returned or its promise     *)
(* resolved, "rejected" when the promise rejected; evs is the returned     *)
(* list, n the returned number.                                            *)
(***************************************************************************)
Res(st, evs, n) == [st |-> st, evs |-> evs, n |-> n]
Void == Res("ok", <<>>, 0)
Rejected == Res("rejected", <<>>, 0)

(***************************************************************************)
(* EventBuffer: the in-memory store.                                       *)
(***************************************************************************)
\* a variant of the window filter that leaves out the event at the cutoff
EventBuffer_inWindow_strict(event, cutoffTime) ==
    LET eventTime == DateGetTime(event.timestamp)
    IN  eventTime.k = "num" /\ eventTime.v > cutoffTime

\* the filter predicate of getEventsInWindow
EventBuffer_inWindow(event, cutoffTime) ==
    JsGE(DateGetTime(event.timestamp), Num(cutoffTime))

\* a variant of the retention filter of cleanup that keeps every event
EventBuffer_retained_all(event, cutoffTime) == TRUE

\* the filter predicate of cleanup
EventBuffer_retained(event, cutoffTime) ==
    JsGE(DateGetTime(event.timestamp), Num(cutoffTime))

EventBuffer_addEvent(evs, event) == Append(evs, event)

EventBuffer_getEventsInWindow(evs, t, windowMinutes) ==
    LET cutoffTime == t - windowMinutes * 60 * 1000
    IN  SelectSeq(evs, LAMBDA event : EventBuffer_inWindow(event, cutoffTime))

EventBuffer_getAllEvents(evs) == evs

EventBuffer_getEventCount(evs) == Len(evs)

\* the events kept by cleanup; the removed count is the difference of lengths
EventBuffer_cleanup(evs, t) ==
    LET cutoffTime == t - retentionMs
    IN  SelectSeq(evs, LAMBDA event : EventBuffer_retained(event, cutoffTime))

EventBuffer_clear(evs) == <<>>

(***************************************************************************)
(* The Redis sorted set under the key 'sentinel:events': a set of entries  *)
(* [member, score] with at most one entry for a member.  A member is the   *)
(* JSON text of an event, modelled as [json |-> the record JSON.parse      *)
(* gives back for it], so that two members are equal exactly when the      *)
(* texts are.  NoTTL is the TTL of a key without expiration.               *)
(***************************************************************************)
NoTTL == -1

\* JSON.stringify of a number: NaN becomes null
JSONnumber(x) == IF x.k = "nan" THEN Null ELSE x

\* a variant of the serialization that leaves latency_ms out
JSONstringify_noLatency(event) ==
    [json |-> [event EXCEPT !.status_code = JSONnumber(@),
                            !.latency_ms = Absent]]

JSONstringify(event) ==
    [json |-> [event EXCEPT !.status_code = JSONnumber(@),
                            !.latency_ms = JSONnumber(@)]]

JSONparse(member) == member.json

\* a member whose text is not JSON: JSON.parse throws a SyntaxError
NotJson == [json |-> [syntaxError |-> "invalid json"]]

JSONparse_throws(member) == "syntaxError" \in DOMAIN member.json

\* rank of a member in the byte order of the JSON texts
JsonRank(member) ==
    IF JSONparse_throws(member) THEN 0
    ELSE CHOOSE i \in 1..Len(EventPool) :
             /\ JSONstringify(EventPool[i]) = member
             /\ \A j \in 1..(i - 1) : JSONstringify(EventPool[j]) # member

\* sorted-set order: by score, then by member
ZLess(x, y) ==
    \/ x.score < y.score
    \/ x.score = y.score /\ JsonRank(x.member) < JsonRank(y.member)

RECURSIVE ZSorted(_)
ZSorted(z) ==
    IF z = {} THEN <<>>
    ELSE LET first == CHOOSE x \in z : \A y \in z \ {x} : ZLess(x, y)
         IN  <<first.member>> \o ZSorted(z \ {first})

\* a variant of ZADD that writes back the set as the caller last saw it,
\* empty, with the new member
ZAdd_lostUpdate(z, score, member) == {[member |-> member, score |-> score]}

\* ZADD key score member: a member already present only has its score updated
ZAdd(z, score, member) ==
    {x \in z : x.member # member} \cup {[member |-> member, score |-> score]}

\* a variant of the bound test that lets every entry through
ZInRange_all(x, min) == TRUE

\* bound test of ZRANGEBYSCORE key min +inf
ZInRange(x, min) == x.score >= min

ZRangeByScore(z, min) == ZSorted({x \in z : ZInRange(x, min)})

\* ZRANGE key 0 -1
ZRange(z) == ZSorted(z)

ZCard(z) == Cardinality(z)

\* removal test of ZREMRANGEBYSCORE key -inf max
ZRemoved(x, max) == x.score <= max

\* the entries ZREMRANGEBYSCORE key -inf max leaves
ZRemRangeByScore(z, max) == {x \in z : ~ZRemoved(x, max)}

(***************************************************************************)
(* RedisEventBuffer: the store on the sorted set.  Every method awaits     *)
(* this.ready before its try block, so it rejects when initialize()        *)
(* rejected.  A method gives [z, ttl, res]: the sorted set and the TTL of  *)
(* the key after the call, and the result of the call.                     *)
(***************************************************************************)
\* a variant of the TTL that covers the retention period once
expireSeconds_once == CeilDiv(retentionMs, 1000)

\* Math.ceil((this.retentionMs / 1000) * 2): the TTL in seconds
expireSeconds == CeilDiv(retentionMs * 2, 1000)

\* a variant of the catch block of addEvent that logs and does not rethrow
addEvent_catch_swallow == Void

\* what the catch block of addEvent makes of a failed command: throw error
addEvent_catch == Rejected

\* what the catch blocks of the read methods make of a failed command
getEventsInWindow_catch == Res("ok", <<>>, 0)

getAllEvents_catch == Res("ok", <<>>, 0)

getEventCount_catch == Res("ok", <<>>, 0)

\* await this.ready: TRUE when the method goes on to its try block
awaitReady(rdy) == rdy = "resolved"

\* a variant of deserializeEvent that returns whatever JSON.parse gives
deserializeEvent_ok_unvalidated(member) == ~JSONparse_throws(member)

\* deserializeEvent gives an event, not null: JSON.parse did not throw and
\* the object has a timestamp and a tenant_id
deserializeEvent_ok(member) ==
    IF JSONparse_throws(member) THEN FALSE
    ELSE LET event == JSONparse(member)
         IN  ~(FalsyTs(event.timestamp) \/ Falsy(event.tenant_id))

\* members.map(deserializeEvent).filter(event => event !== null)
deserializeAll(members) ==
    LET kept == SelectSeq(members, deserializeEvent_ok)
    IN  [i \in 1..Len(kept) |-> JSONparse(kept[i])]

\* fault: "none", "zAdd" (the ZADD command fails), "expire" (ZADD is done
\* and the EXPIRE command fails)
RedisEventBuffer_addEvent(z, tl, t, rdy, event, fault) ==
    IF ~awaitReady(rdy) THEN [z |-> z, ttl |-> tl, res |-> Rejected]
    ELSE LET score == DateGetTime(event.timestamp)
             member == JSONstringify(event)
         IN  IF fault = "zAdd" \/ score.k # "num"
             THEN [z |-> z, ttl |-> tl, res |-> addEvent_catch]
             ELSE IF fault = "expire"
             THEN [z |-> ZAdd(z, score.v, member), ttl |-> tl,
                   res |-> addEvent_catch]
             ELSE [z |-> ZAdd(z, score.v, member),
                   ttl |-> t + expireSeconds * 1000, res |-> Void]

RedisEventBuffer_getEventsInWindow(z, t, rdy, up, windowMinutes) ==
    IF ~awaitReady(rdy) THEN Rejected
    ELSE IF ~up THEN getEventsInWindow_catch
    ELSE LET cutoffMs == t - windowMinutes * 60 * 1000
         IN  Res("ok", deserializeAll(ZRangeByScore(z, cutoffMs)), 0)

RedisEventBuffer_getAllEvents(z, rdy, up) ==
    IF ~awaitReady(rdy) THEN Rejected
    ELSE IF ~up THEN getAllEvents_catch
    ELSE Res("ok", deserializeAll(ZRange(z)), 0)

RedisEventBuffer_getEventCount(z, rdy, up) ==
    IF ~awaitReady(rdy) THEN Rejected
    ELSE IF ~up THEN getEventCount_catch
    ELSE Res("ok", <<>>, ZCard(z))

\* a sorted set left empty is deleted by Redis, and its TTL with it
RedisEventBuffer_cleanup(z, tl, t, rdy, up) ==
    IF ~awaitReady(rdy) THEN [z |-> z, ttl |-> tl, res |-> Rejected]
    ELSE IF ~up THEN [z |-> z, ttl |-> tl, res |-> Res("ok", <<>>, 0)]
    ELSE LET cutoffMs == t - retentionMs
             left == ZRemRangeByScore(z, cutoffMs)
         IN  [z |-> left, ttl |-> IF left = {} THEN NoTTL ELSE tl,
              res |-> Res("ok", <<>>, ZCard(z) - ZCard(left))]

RedisEventBuffer_clear(z, tl, rdy, up) ==
    IF ~awaitReady(rdy) THEN [z |-> z, ttl |-> tl, res |-> Rejected]
    ELSE IF ~up THEN [z |-> z, ttl |-> tl, res |-> Void]
    ELSE [z |-> {}, ttl |-> NoTTL, res |-> Void]

(***************************************************************************)
(* State.                                                                  *)
(***************************************************************************)
VARIABLES
    now,          \* Date.now()
    events,       \* EventBuffer.events
    zset,         \* the sorted set 'sentinel:events' in Redis
    ttl,          \* instant at which the key expires, NoTTL when it does not
    redisUp,      \* Redis answers commands
    ready,        \* RedisEventBuffer.ready: "resolved" or "rejected"
    EVENT_STORAGE, \* process.env.EVENT_STORAGE, "" when unset
    last,         \* the last call or request and what it returned
    cleanupTimer, \* cleanupTimer of the two stores: "armed" or "undefined"
    stopped,      \* the stores on which stopCleanup() has returned
    retries,      \* reconnection attempts of the client since it lost Redis
    pending       \* the calls in flight, each at its next await

vars == <<now, events, zset, ttl, redisUp, ready, EVENT_STORAGE, last,
          cleanupTimer, stopped, retries, pending>>

\* the part of the state that the calls of the store interface, the routes
\* and the aggregation leave alone
lifecycle == <<cleanupTimer, stopped, retries, pending>>

\* Both stores constructed and initialize() settled: the in-memory store
\* armed its timer in the constructor, the Redis store after it connected;
\* no call is in flight.
Settled ==
    /\ cleanupTimer = [mem |-> "armed",
                       redis |-> IF ready = "resolved" THEN "armed"
                                 ELSE "undefined"]
    /\ stopped = {}
    /\ retries = 0
    /\ pending = {}

Call(op, event, w, fault, mem, redis, status, calls) ==
    [op |-> op, event |-> event, windowMinutes |-> w, fault |-> fault,
     mem |-> mem, redis |-> redis, status |-> status, calls |-> calls]

NoCall == Call("none", NoEvent, 0, "none", Void, Void, 0, 0)

\* what a single command does when Redis does not answer
Fault == IF redisUp THEN "none" ELSE "cmd"

\* The stores as constructed: both empty.  The Redis store's initialize()
\* has settled: resolved when the client connected, rejected when not.
Init ==
    /\ now = StartMs
    /\ events = <<>>
    /\ zset = {}
    /\ ttl = NoTTL
    /\ ready \in {"resolved", "rejected"}
    /\ redisUp = (ready = "resolved")
    /\ EVENT_STORAGE = ""
    /\ last = NoCall
    /\ Settled

(***************************************************************************)
(* The store interface, called on both implementations.                    *)
(***************************************************************************)
addEvent(event, fault) ==
    /\ Len(events) < MaxEvents
    /\ ZCard(zset) < MaxEvents
    /\ fault = "none" => redisUp
    /\ fault = "zAdd" => ~redisUp
    /\ fault = "expire" => redisUp /\ awaitReady(ready)
    /\ LET r == RedisEventBuffer_addEvent(zset, ttl, now, ready, event, fault)
       IN  /\ events' = EventBuffer_addEvent(events, event)
           /\ zset' = r.z
           /\ ttl' = r.ttl
           /\ redisUp' = IF fault = "expire" THEN FALSE ELSE redisUp
           /\ last' = Call("addEvent", event, 0, fault, Void, r.res, 0, 0)
    /\ UNCHANGED <<now, ready, EVENT_STORAGE>>
    /\ UNCHANGED lifecycle

getEventsInWindow(windowMinutes) ==
    /\ last' = Call("getEventsInWindow", NoEvent, windowMinutes, Fault,
                    Res("ok", EventBuffer_getEventsInWindow(events, now, windowMinutes), 0),
                    RedisEventBuffer_getEventsInWindow(zset, now, ready, redisUp, windowMinutes),
                    0, 0)
    /\ UNCHANGED <<now, events, zset, ttl, redisUp, ready, EVENT_STORAGE>>
    /\ UNCHANGED lifecycle

getAllEvents ==
    /\ last' = Call("getAllEvents", NoEvent, 0, Fault,
                    Res("ok", EventBuffer_getAllEvents(events), 0),
                    RedisEventBuffer_getAllEvents(zset, ready, redisUp), 0, 0)
    /\ UNCHANGED <<now, events, zset, ttl, redisUp, ready, EVENT_STORAGE>>
    /\ UNCHANGED lifecycle

getEventCount ==
    /\ last' = Call("getEventCount", NoEvent, 0, Fault,
                    Res("ok", <<>>, EventBuffer_getEventCount(events)),
                    RedisEventBuffer_getEventCount(zset, ready, redisUp), 0, 0)
    /\ UNCHANGED <<now, events, zset, ttl, redisUp, ready, EVENT_STORAGE>>
    /\ UNCHANGED lifecycle

cleanup ==
    /\ LET kept == EventBuffer_cleanup(events, now)
           r == RedisEventBuffer_cleanup(zset, ttl, now, ready, redisUp)
       IN  /\ events' = kept
           /\ zset' = r.z
           /\ ttl' = r.ttl
           /\ last' = Call("cleanup", NoEvent, 0, Fault,
                           Res("ok", <<>>, Len(events) - Len(kept)), r.res, 0, 0)
    /\ UNCHANGED <<now, redisUp, ready, EVENT_STORAGE>>
    /\ UNCHANGED lifecycle

clear ==
    /\ LET r == RedisEventBuffer_clear(zset, ttl, ready, redisUp)
       IN  /\ events' = EventBuffer_clear(events)
           /\ zset' = r.z
           /\ ttl' = r.ttl
           /\ last' = Call("clear", NoEvent, 0, Fault, Void, r.res, 0, 0)
    /\ UNCHANGED <<now, redisUp, ready, EVENT_STORAGE>>
    /\ UNCHANGED lifecycle

(***************************************************************************)
(* The environment: time passes, Redis is lost and comes back.  Redis      *)
(* deletes the key once its TTL has run out.                               *)
(***************************************************************************)
Tick(t) ==
    /\ t > now
    /\ now' = t
    /\ IF ttl # NoTTL /\ t >= ttl
       THEN zset' = {} /\ ttl' = NoTTL
       ELSE UNCHANGED <<zset, ttl>>
    /\ last' = NoCall
    /\ UNCHANGED <<events, redisUp, ready, EVENT_STORAGE>>
    /\ UNCHANGED lifecycle

RedisDown ==
    /\ redisUp
    /\ redisUp' = FALSE
    /\ last' = NoCall
    /\ UNCHANGED <<now, events, zset, ttl, ready, EVENT_STORAGE>>
    /\ UNCHANGED lifecycle

RedisBack ==
    /\ ~redisUp
    /\ redisUp' = TRUE
    /\ last' = NoCall
    /\ UNCHANGED <<now, events, zset, ttl, ready, EVENT_STORAGE>>
    /\ UNCHANGED lifecycle

Next ==
    \/ \E event \in StoreEvents, fault \in {"none", "zAdd", "expire"} :
           addEvent(event, fault)
    \/ \E windowMinutes \in Windows : getEventsInWindow(windowMinutes)
    \/ getAllEvents
    \/ getEventCount
    \/ cleanup
    \/ clear
    \/ \E t \in Instants : Tick(t)
    \/ RedisDown
    \/ RedisBack

Spec == Init /\ [][Next]_vars

(***************************************************************************)
(* The backend service.  Each route works on the eventBuffer singleton     *)
(* that its module imports.                                                *)
(***************************************************************************)
StorageTypes == {"", "memory", "redis"}

\* parsed window query parameters: absent or not numeric, 0, 1
QueryWindows == {NaN, Num(0), Num(1)}

\* a variant of the factory that compares the flag without regard to case
createEventBuffer_anyCase(env) ==
    IF env \in {"redis", "Redis", "REDIS"} THEN "redis" ELSE "memory"

\* eventBuffer.factory: the implementation createEventBuffer constructs
createEventBuffer(env) ==
    LET storageType == IF env = "" THEN "memory" ELSE env
    IN  IF storageType = "redis" THEN "redis" ELSE "memory"

\* the singleton imported by ingestion/router.ts
ingestionStore == "redis"

\* the singleton imported by aggregation/metrics.ts
aggregationStore == "redis"

\* the singleton imported by debug/router.ts
debugStore == createEventBuffer(EVENT_STORAGE)

\* ready of the factory's RedisEventBuffer: getRedisClient() returns the
\* client that the first store created, without connecting again
factoryReady == "resolved"

\* a variant of the default that replaces NaN only, not 0
orDefault_nanOnly(q, dflt) == IF q.k # "num" THEN dflt ELSE q.v

\* parseInt(...) || dflt: the default replaces NaN and 0
orDefault(q, dflt) == IF q.k # "num" \/ q.v = 0 THEN dflt ELSE q.v

\* a variant of the validation that does not look at endpoint
missingRequiredFields_noEndpoint(event) ==
    Falsy(event.tenant_id) \/ FalsyTs(event.timestamp)

\* the validation of the ingestion route: TRUE when the body is refused
missingRequiredFields(event) ==
    Falsy(event.tenant_id) \/ FalsyTs(event.timestamp) \/ Falsy(event.endpoint)

\* a variant of the ingestion route that answers 201 from its catch block
ingestionStatus_always201(res) == 201

\* the status the ingestion route answers after addEvent
ingestionStatus(res) == IF res.st = "ok" THEN 201 ELSE 500

\* getEventsInWindow and getEventCount on the store named store
store_getEventsInWindow(store, rdy, windowMinutes) ==
    IF store = "redis"
    THEN RedisEventBuffer_getEventsInWindow(zset, now, rdy, redisUp, windowMinutes)
    ELSE Res("ok", EventBuffer_getEventsInWindow(events, now, windowMinutes), 0)

store_getEventCount(store, rdy) ==
    IF store = "redis"
    THEN RedisEventBuffer_getEventCount(zset, rdy, redisUp)
    ELSE Res("ok", <<>>, EventBuffer_getEventCount(events))

InitApp ==
    /\ now = StartMs
    /\ events = <<>>
    /\ zset = {}
    /\ ttl = NoTTL
    /\ ready \in {"resolved", "rejected"}
    /\ redisUp = (ready = "resolved")
    /\ EVENT_STORAGE \in StorageTypes
    /\ last = NoCall
    /\ Settled

\* POST /api/v1/events
postEvents(event, fault) ==
    /\ Len(events) < MaxEvents
    /\ ZCard(zset) < MaxEvents
    /\ fault = "none" => redisUp
    /\ fault = "zAdd" => ~redisUp
    /\ fault = "expire" => redisUp /\ awaitReady(ready)
    /\ IF missingRequiredFields(event)
       THEN /\ last' = Call("postEvents", event, 0, "none", Void, Void, 400, 0)
            /\ UNCHANGED <<events, zset, ttl, redisUp>>
       ELSE IF ingestionStore = "redis"
       THEN LET r == RedisEventBuffer_addEvent(zset, ttl, now, ready, event, fault)
            IN  /\ zset' = r.z
                /\ ttl' = r.ttl
                /\ redisUp' = IF fault = "expire" THEN FALSE ELSE redisUp
                /\ last' = Call("postEvents", event, 0, fault, Void, r.res,
                                ingestionStatus(r.res), 1)
                /\ UNCHANGED events
       ELSE /\ events' = EventBuffer_addEvent(events, event)
            /\ last' = Call("postEvents", event, 0, "none", Void, Void,
                            ingestionStatus(Void), 1)
            /\ UNCHANGED <<zset, ttl, redisUp>>
    /\ UNCHANGED <<now, ready, EVENT_STORAGE>>
    /\ UNCHANGED lifecycle

\* the response of a debug route: 500 when one of the two reads rejects
debugResponse(op, windowMinutes) ==
    LET inWindow == store_getEventsInWindow(debugStore, factoryReady, windowMinutes)
        total == store_getEventCount(debugStore, factoryReady)
        failed == inWindow.st = "rejected" \/ total.st = "rejected"
        body == IF failed THEN Rejected ELSE Res("ok", inWindow.evs, total.n)
    IN  Call(op, NoEvent, windowMinutes, Fault,
             IF debugStore = "memory" THEN body ELSE Void,
             IF debugStore = "redis" THEN body ELSE Void,
             IF failed THEN 500 ELSE 200, 0)

\* GET /api/v1/debug/events
debugEvents(q) ==
    /\ last' = debugResponse("debugEvents", orDefault(q, 15))
    /\ UNCHANGED <<now, events, zset, ttl, redisUp, ready, EVENT_STORAGE>>
    /\ UNCHANGED lifecycle

\* GET /api/v1/debug/stats
debugStats ==
    /\ last' = debugResponse("debugStats", 5)
    /\ UNCHANGED <<now, events, zset, ttl, redisUp, ready, EVENT_STORAGE>>
    /\ UNCHANGED lifecycle

NextApp ==
    \/ \E event \in RequestBodies, fault \in {"none", "zAdd", "expire"} :
           postEvents(event, fault)
    \/ \E q \in QueryWindows : debugEvents(q)
    \/ debugStats
    \/ \E t \in Instants : Tick(t)
    \/ RedisDown
    \/ RedisBack

SpecApp == InitApp /\ [][NextApp]_vars

(***************************************************************************)
(* The aggregation engine (aggregation/metrics.ts).  A Map is the sequence *)
(* of its entries in insertion order, an array a sequence.                 *)
(***************************************************************************)
\* a < b and a === b on two numbers
NumLess(a, b) == a.v * b.d < b.v * a.d

NumEq(a, b) == a.v * b.d = b.v * a.d

\* Math.round of a number: the nearest integer, a half goes up
MathRound(x) == (2 * x.v + x.d) \div (2 * x.d)

\* Array.prototype.sort with a consistent comparator: negative is the set
\* of the pairs <<i, j>> of positions on whose elements the comparator is
\* negative; elements that compare equal keep their order
ArraySort(seq, negative) ==
    LET n == Len(seq)
        pos(i) == 1 + Cardinality({j \in 1..n :
                          \/ <<j, i>> \in negative
                          \/ <<i, j>> \notin negative /\ j < i})
    IN  [p \in 1..n |-> seq[CHOOSE i \in 1..n : pos(i) = p]]

\* the pairs of positions of an array
Pairs(seq) == (1..Len(seq)) \X (1..Len(seq))

\* Array.prototype.slice(0, end): a negative end counts from the end
ArraySlice(seq, end) ==
    LET n == Len(seq)
        stop == IF end >= 0 THEN (IF end < n THEN end ELSE n)
                ELSE (IF n + end > 0 THEN n + end ELSE 0)
    IN  SubSeq(seq, 1, stop)

\* a variant of the grouping that files every event under every tenant
tenantEventsOf_all(evs, tenantId) == evs

\* the events of one tenant, in the order of the list
tenantEventsOf(evs, tenantId) ==
    LET ofTenant(event) == event.tenant_id = tenantId
    IN  SelectSeq(evs, ofTenant)

\* groupEventsByTenant: the Map tenant_id -> events of the tenant; an event
\* with a falsy tenant_id is skipped
groupEventsByTenant(evs) ==
    LET firsts == {i \in 1..Len(evs) :
                       /\ ~Falsy(evs[i].tenant_id)
                       /\ \A j \in 1..(i - 1) :
                              evs[j].tenant_id # evs[i].tenant_id}
        nth(k) == CHOOSE i \in firsts :
                      Cardinality({j \in firsts : j < i}) = k - 1
    IN  [k \in 1..Cardinality(firsts) |->
            [tenantId |-> evs[nth(k)].tenant_id,
             tenantEvents |-> tenantEventsOf(evs, evs[nth(k)].tenant_id)]]

\* numbers.reduce((acc, val) => acc + val, 0)
RECURSIVE sumOf(_)
sumOf(numbers) ==
    IF numbers = <<>> THEN Num(0)
    ELSE LET rest == sumOf(Tail(numbers))
             val == Head(numbers)
         IN  Frac(val.v * rest.d + rest.v * val.d, val.d * rest.d)

calculateMean(numbers) ==
    IF Len(numbers) = 0 THEN Num(0)
    ELSE LET sum == sumOf(numbers)
         IN  Frac(sum.v, sum.d * Len(numbers))

\* a variant of calculateP95 that takes the median, at the index
\* Math.ceil(length * 0.5) - 1
calculateP95_median(sortedLatencies) ==
    IF Len(sortedLatencies) = 0 THEN Num(0)
    ELSE sortedLatencies[CeilDiv(Len(sortedLatencies), 2)]

\* index = Math.ceil(length * 0.95) - 1 on a 0-based array; the product is
\* below 19 * length / 20 by less than the distance to the next integer
calculateP95(sortedLatencies) ==
    IF Len(sortedLatencies) = 0 THEN Num(0)
    ELSE IF Len(sortedLatencies) = 1 THEN sortedLatencies[1]
    ELSE LET index == CeilDiv(Len(sortedLatencies) * 95, 100) - 1
         IN  sortedLatencies[index + 1]

\* a variant of the error test that counts every status from 400 on
isErrorStatus_clientErrors(event) == JsGE(event.status_code, Num(400))

\* e.status_code >= 500
isErrorStatus(event) == JsGE(event.status_code, Num(500))

\* the entry of one tenant in the error metrics
tenantErrorMetrics(entry) ==
    LET totalRequests == Len(entry.tenantEvents)
        errorCount == Len(SelectSeq(entry.tenantEvents, isErrorStatus))
        errorRate == IF totalRequests > 0 THEN Frac(errorCount, totalRequests)
                     ELSE Num(0)
    IN  [tenant_id |-> entry.tenantId, total_requests |-> totalRequests,
         error_count |-> errorCount, error_rate |-> errorRate]

\* a variant of the comparator that compares the error rates only
errorBefore_rateOnly(a, b) == NumLess(b.error_rate, a.error_rate)

\* the comparator of the error metrics is negative on (a, b)
errorBefore(a, b) ==
    IF ~NumEq(b.error_rate, a.error_rate)
    THEN NumLess(b.error_rate, a.error_rate)
    ELSE b.error_count - a.error_count < 0

\* a variant of slice that returns the whole array
topOf_all(metrics, limit) == metrics

\* metrics.slice(0, limit)
topOf(metrics, limit) == ArraySlice(metrics, limit)

\* aggregateErrorMetrics after the window has been read
errorMetricsOf(evs, limit) ==
    IF Len(evs) = 0 THEN <<>>
    ELSE LET groupedEvents == groupEventsByTenant(evs)
             metrics == [k \in 1..Len(groupedEvents) |->
                            tenantErrorMetrics(groupedEvents[k])]
             negative == {p \in Pairs(metrics) :
                             errorBefore(metrics[p[1]], metrics[p[2]])}
         IN  topOf(ArraySort(metrics, negative), limit)

\* a variant of the latency filter without the test lat >= 0
validLatency_anyNumber(lat) == lat.k = "num"

\* typeof lat === 'number' && !isNaN(lat) && lat >= 0
validLatency(lat) ==
    /\ lat.k \in {"num", "nan"}
    /\ lat.k # "nan"
    /\ JsGE(lat, Num(0))

\* the valid latencies of a tenant's events, in the order of the events
latenciesOf(tenantEvents) ==
    LET all == [i \in 1..Len(tenantEvents) |-> tenantEvents[i].latency_ms]
    IN  SelectSeq(all, validLatency)

hasLatencies(entry) == Len(latenciesOf(entry.tenantEvents)) # 0

\* the entry of one tenant in the latency metrics
tenantLatencyMetrics(entry) ==
    LET latencies == latenciesOf(entry.tenantEvents)
        negative == {p \in Pairs(latencies) :
                        NumLess(latencies[p[1]], latencies[p[2]])}
        sortedLatencies == ArraySort(latencies, negative)
        meanLatency == calculateMean(sortedLatencies)
        p95Latency == calculateP95(sortedLatencies)
    IN  [tenant_id |-> entry.tenantId,
         total_requests |-> Len(entry.tenantEvents),
         mean_latency |-> MathRound(meanLatency),
         p95_latency |-> MathRound(p95Latency)]

\* a variant of the comparator that sorts by ascending p95
latencyBefore_ascending(a, b) == a.p95_latency - b.p95_latency < 0

\* the comparator of the latency metrics is negative on (a, b)
latencyBefore(a, b) == b.p95_latency - a.p95_latency < 0

\* aggregateLatencyMetrics after the window has been read
latencyMetricsOf(evs, limit) ==
    IF Len(evs) = 0 THEN <<>>
    ELSE LET groupedEvents == SelectSeq(groupEventsByTenant(evs), hasLatencies)
             metrics == [k \in 1..Len(groupedEvents) |->
                            tenantLatencyMetrics(groupedEvents[k])]
             negative == {p \in Pairs(metrics) :
                             latencyBefore(metrics[p[1]], metrics[p[2]])}
         IN  topOf(ArraySort(metrics, negative), limit)

\* a call of an aggregation function and what its promise settled to
AggCall(op, w, limit, res) ==
    [op |-> op, event |-> NoEvent, windowMinutes |-> w, fault |-> Fault,
     mem |-> Void, redis |-> res, status |-> 0, calls |-> 0, limit |-> limit]

\* a variant of the error aggregation that takes the events it reads out of
\* the store
aggregateErrorMetrics_draining(windowMinutes, limit) ==
    /\ LET r == store_getEventsInWindow(aggregationStore, ready, windowMinutes)
       IN  /\ last' = AggCall("aggregateErrorMetrics", windowMinutes, limit,
                               IF r.st = "rejected" THEN Rejected
                               ELSE Res("ok", errorMetricsOf(r.evs, limit), 0))
           /\ zset' = {x \in zset : \A i \in 1..Len(r.evs) :
                                      r.evs[i] # JSONparse(x.member)}
    /\ UNCHANGED <<now, events, ttl, redisUp, ready, EVENT_STORAGE>>
    /\ UNCHANGED lifecycle

\* The aggregation functions await getEventsInWindow of the imported
\* singleton outside of any try block: they reject when it rejects.
aggregateErrorMetrics(windowMinutes, limit) ==
    /\ LET r == store_getEventsInWindow(aggregationStore, ready, windowMinutes)
       IN  last' = AggCall("aggregateErrorMetrics", windowMinutes, limit,
                           IF r.st = "rejected" THEN Rejected
                           ELSE Res("ok", errorMetricsOf(r.evs, limit), 0))
    /\ UNCHANGED <<now, events, zset, ttl, redisUp, ready, EVENT_STORAGE>>
    /\ UNCHANGED lifecycle

aggregateLatencyMetrics(windowMinutes, limit) ==
    /\ LET r == store_getEventsInWindow(aggregationStore, ready, windowMinutes)
       IN  last' = AggCall("aggregateLatencyMetrics", windowMinutes, limit,
                           IF r.st = "rejected" THEN Rejected
                           ELSE Res("ok", latencyMetricsOf(r.evs, limit), 0))
    /\ UNCHANGED <<now, events, zset, ttl, redisUp, ready, EVENT_STORAGE>>
    /\ UNCHANGED lifecycle

\* addEvent on the singleton that the aggregation reads
storeEvent(event) ==
    /\ ZCard(zset) < MaxWindow
    /\ redisUp
    /\ LET r == RedisEventBuffer_addEvent(zset, ttl, now, ready, event, "none")
       IN  /\ zset' = r.z
           /\ ttl' = r.ttl
           /\ last' = Call("addEvent", event, 0, "none", Void, r.res, 0, 0)
    /\ UNCHANGED <<now, events, redisUp, ready, EVENT_STORAGE>>
    /\ UNCHANGED lifecycle

InitAgg ==
    /\ now = StartMs
    /\ events = <<>>
    /\ zset = {}
    /\ ttl = NoTTL
    /\ ready \in {"resolved", "rejected"}
    /\ redisUp = (ready = "resolved")
    /\ EVENT_STORAGE = ""
    /\ last = NoCall
    /\ Settled

NextAgg ==
    \/ \E event \in AggEvents : storeEvent(event)
    \/ \E w \in AggWindows, limit \in Limits : aggregateErrorMetrics(w, limit)
    \/ \E w \in AggWindows, limit \in Limits : aggregateLatencyMetrics(w, limit)
    \/ RedisDown
    \/ RedisBack

SpecAgg == InitAgg /\ [][NextAgg]_vars

(***************************************************************************)
(* The retention sweeper.  The in-memory store arms its interval timer in  *)
(* the constructor; the Redis store arms it in initialize(), after the     *)
(* client has connected.  A timer callback runs cleanup().                 *)
(***************************************************************************)
\* the events added to the stores while the sweeper is observed
SweepEvents == {EventPool[i] : i \in {1, 3, 8}}

\* a variant in which a callback that met a failure clears the timer
timerAfterSweep_clearedOnFailure(fault) ==
    IF fault = "none" THEN "armed" ELSE "undefined"

\* the interval timer after one of its callbacks has run: setInterval
\* keeps it armed whatever the callback did
timerAfterSweep(fault) == "armed"

\* this.cleanup().catch(...): a rejection of cleanup is logged
sweep_catch == Res("ok", <<>>, 0)

\* initialize() goes on after getRedisClient() resolved: startCleanupTimer()
initializeDone ==
    /\ ready = "pending"
    /\ redisUp
    /\ ready' = "resolved"
    /\ cleanupTimer' = [cleanupTimer EXCEPT !.redis = "armed"]
    /\ last' = NoCall
    /\ UNCHANGED <<now, events, zset, ttl, redisUp, EVENT_STORAGE>>
    /\ UNCHANGED <<stopped, retries, pending>>

\* getRedisClient() rejected: initialize() rejects before startCleanupTimer()
initializeFailed ==
    /\ ready = "pending"
    /\ ~redisUp
    /\ ready' = "rejected"
    /\ last' = NoCall
    /\ UNCHANGED <<now, events, zset, ttl, redisUp, EVENT_STORAGE>>
    /\ UNCHANGED lifecycle

\* stopCleanup() of the in-memory store
EventBuffer_stopCleanup ==
    /\ cleanupTimer' = [cleanupTimer EXCEPT !.mem = "undefined"]
    /\ stopped' = stopped \cup {"memory"}
    /\ last' = Call("EventBuffer.stopCleanup", NoEvent, 0, "none",
                    Void, Void, 0, 0)
    /\ UNCHANGED <<now, events, zset, ttl, redisUp, ready, EVENT_STORAGE>>
    /\ UNCHANGED <<retries, pending>>

\* stopCleanup() of the Redis store: it does not await this.ready
RedisEventBuffer_stopCleanup ==
    /\ cleanupTimer' = [cleanupTimer EXCEPT !.redis = "undefined"]
    /\ stopped' = stopped \cup {"redis"}
    /\ last' = Call("RedisEventBuffer.stopCleanup", NoEvent, 0, "none",
                    Void, Void, 0, 0)
    /\ UNCHANGED <<now, events, zset, ttl, redisUp, ready, EVENT_STORAGE>>
    /\ UNCHANGED <<retries, pending>>

\* the timer callback of the in-memory store
EventBuffer_sweep ==
    /\ cleanupTimer.mem = "armed"
    /\ LET kept == EventBuffer_cleanup(events, now)
       IN  /\ events' = kept
           /\ last' = Call("EventBuffer.sweep", NoEvent, 0, "none",
                           Res("ok", <<>>, Len(events) - Len(kept)), Void, 0, 0)
    /\ cleanupTimer' = [cleanupTimer EXCEPT !.mem = timerAfterSweep("none")]
    /\ UNCHANGED <<now, zset, ttl, redisUp, ready, EVENT_STORAGE>>
    /\ UNCHANGED <<stopped, retries, pending>>

\* the timer callback of the Redis store
RedisEventBuffer_sweep ==
    /\ cleanupTimer.redis = "armed"
    /\ LET r == RedisEventBuffer_cleanup(zset, ttl, now, ready, redisUp)
       IN  /\ zset' = r.z
           /\ ttl' = r.ttl
           /\ last' = Call("RedisEventBuffer.sweep", NoEvent, 0, Fault, Void,
                           IF r.res.st = "rejected" THEN sweep_catch ELSE r.res,
                           0, 0)
    /\ cleanupTimer' = [cleanupTimer EXCEPT !.redis = timerAfterSweep(Fault)]
    /\ UNCHANGED <<now, events, redisUp, ready, EVENT_STORAGE>>
    /\ UNCHANGED <<stopped, retries, pending>>

\* The two stores right after their constructors returned: the Redis store
\* is still connecting.
InitSweep ==
    /\ now = StartMs
    /\ events = <<>>
    /\ zset = {}
    /\ ttl = NoTTL
    /\ ready = "pending"
    /\ redisUp \in BOOLEAN
    /\ EVENT_STORAGE = ""
    /\ last = NoCall
    /\ cleanupTimer = [mem |-> "armed", redis |-> "undefined"]
    /\ stopped = {}
    /\ retries = 0
    /\ pending = {}

NextSweep ==
    \/ initializeDone
    \/ initializeFailed
    \/ EventBuffer_stopCleanup
    \/ RedisEventBuffer_stopCleanup
    \/ EventBuffer_sweep
    \/ RedisEventBuffer_sweep
    \/ /\ ready # "pending"
       /\ \E event \in SweepEvents : addEvent(event, "none")
    \/ \E t \in Instants : Tick(t)
    \/ RedisDown
    \/ RedisBack

SpecSweep == InitSweep /\ [][NextSweep]_vars

\* the timers fire again and again for as long as they are armed
SpecSweepFair ==
    /\ SpecSweep
    /\ WF_vars(EventBuffer_sweep)
    /\ WF_vars(RedisEventBuffer_sweep)

(***************************************************************************)
(* The Redis client (redis/client.ts).  When the socket is lost the client *)
(* asks reconnectStrategy(retries) what to do, with the number of attempts *)
(* made so far, waits for the delay it returns and tries again; an Error   *)
(* ends reconnection.                                                      *)
(***************************************************************************)
\* a new loss of the connection is observed until this long after the start
MaxReconnectMs == 4000

\* what reconnectStrategy returns: a delay in ms or an Error
Delay(ms) == [k |-> "delay", ms |-> ms]

MaxAttemptsError == [k |-> "error", ms |-> 0]

MathMin(a, b) == IF a < b THEN a ELSE b

\* a variant of the strategy that never gives up
reconnectStrategy_forever(r) == Delay(MathMin(r * 100, 3000))

reconnectStrategy(r) ==
    IF r > 10 THEN MaxAttemptsError
    ELSE Delay(MathMin(r * 100, 3000))

\* a call of reconnectStrategy and what it returned
StrategyCall(r, result) ==
    [op |-> "reconnectStrategy", event |-> NoEvent, windowMinutes |-> 0,
     fault |-> "none", mem |-> Void, redis |-> Void, status |-> 0,
     calls |-> 0, retries |-> r, result |-> result]

\* the socket is lost
socketClosed ==
    /\ redisUp
    /\ retries <= 11
    /\ now < StartMs + MaxReconnectMs
    /\ redisUp' = FALSE
    /\ retries' = 0
    /\ last' = NoCall
    /\ UNCHANGED <<now, events, zset, ttl, ready, EVENT_STORAGE>>
    /\ UNCHANGED <<cleanupTimer, stopped, pending>>

\* a connection attempt failed: the client calls reconnectStrategy and,
\* given a delay, waits for it
reconnectAttempt ==
    /\ ~redisUp
    /\ retries <= 11
    /\ LET result == reconnectStrategy(retries)
       IN  /\ last' = StrategyCall(retries, result)
           /\ now' = IF result.k = "delay" THEN now + result.ms ELSE now
    /\ retries' = retries + 1
    /\ UNCHANGED <<events, zset, ttl, redisUp, ready, EVENT_STORAGE>>
    /\ UNCHANGED <<cleanupTimer, stopped, pending>>

\* a connection attempt succeeded
reconnected ==
    /\ ~redisUp
    /\ retries <= 11
    /\ redisUp' = TRUE
    /\ retries' = 0
    /\ last' = NoCall
    /\ UNCHANGED <<now, events, zset, ttl, ready, EVENT_STORAGE>>
    /\ UNCHANGED <<cleanupTimer, stopped, pending>>

InitReconnect ==
    /\ now = StartMs
    /\ events = <<>>
    /\ zset = {}
    /\ ttl = NoTTL
    /\ ready = "resolved"
    /\ redisUp = TRUE
    /\ EVENT_STORAGE = ""
    /\ last = NoCall
    /\ Settled

NextReconnect ==
    \/ socketClosed
    \/ reconnectAttempt
    \/ reconnected

SpecReconnect == InitReconnect /\ [][NextReconnect]_vars

(***************************************************************************)
(* The analytics routes (api/router.ts).  A query parameter is a string,   *)
(* here the sequence of its characters; parseInt reads the longest prefix  *)
(* that is an integer numeral and gives NaN when there is none.            *)
(***************************************************************************)
Digits == {"0", "1", "2", "3", "4", "5", "6", "7", "8", "9"}

DigitValue(c) ==
    CASE c = "0" -> 0 [] c = "1" -> 1 [] c = "2" -> 2 [] c = "3" -> 3
      [] c = "4" -> 4 [] c = "5" -> 5 [] c = "6" -> 6 [] c = "7" -> 7
      [] c = "8" -> 8 [] c = "9" -> 9

\* String(undefined): what parseInt reads when the parameter is absent
QueryAbsent == <<"u", "n", "d", "e", "f", "i", "n", "e", "d">>

\* the query strings sent to the analytics routes: absent, "", "abc", "0",
\* "-0", "7", "20", "-5", "7.5", "0.5"
QueryTexts ==
    {QueryAbsent, <<>>, <<"a", "b", "c">>, <<"0">>, <<"-", "0">>, <<"7">>,
     <<"2", "0">>, <<"-", "5">>, <<"7", ".", "5">>, <<"0", ".", "5">>}

\* the events stored while the analytics routes are called
AnalyticsEvents == {EventPool[i] : i \in {8, 15, 17}}

\* parseInt, step 4: leading white space is skipped
RECURSIVE TrimStart(_)
TrimStart(s) ==
    IF s # <<>> /\ Head(s) = " " THEN TrimStart(Tail(s)) ELSE s

\* parseInt, step 11: the longest prefix made of digits
RECURSIVE DigitPrefix(_)
DigitPrefix(s) ==
    IF s # <<>> /\ Head(s) \in Digits
    THEN <<Head(s)>> \o DigitPrefix(Tail(s))
    ELSE <<>>

\* the number that a sequence of decimal digits denotes
RECURSIVE DecimalValue(_)
DecimalValue(ds) ==
    IF ds = <<>> THEN 0
    ELSE 10 * DecimalValue(SubSeq(ds, 1, Len(ds) - 1)) + DigitValue(ds[Len(ds)])

\* parseInt(string) with no radix, for strings without a 0x prefix
parseInt(string) ==
    LET trimmed == TrimStart(string)
        signed == trimmed # <<>> /\ Head(trimmed) \in {"-", "+"}
        negative == trimmed # <<>> /\ Head(trimmed) = "-"
        ds == DigitPrefix(IF signed THEN Tail(trimmed) ELSE trimmed)
    IN  IF ds = <<>> THEN NaN
        ELSE Num(IF negative THEN 0 - DecimalValue(ds) ELSE DecimalValue(ds))

\* a request of an analytics route and the response: the arguments passed
\* to the aggregation function, the status and the tenants of the body
AnalyticsCall(op, qWindow, qLimit, windowMinutes, limit, res) ==
    [op |-> op, event |-> NoEvent, windowMinutes |-> windowMinutes,
     fault |-> Fault, mem |-> Void, redis |-> res,
     status |-> IF res.st = "rejected" THEN 500 ELSE 200, calls |-> 1,
     limit |-> limit, qWindow |-> qWindow, qLimit |-> qLimit]

\* GET /api/v1/analytics/top-tenants/errors
topTenantsErrors(qWindow, qLimit) ==
    /\ LET windowMinutes == orDefault(parseInt(qWindow), 5)
           limit == orDefault(parseInt(qLimit), 10)
           r == store_getEventsInWindow(aggregationStore, ready, windowMinutes)
       IN  last' = AnalyticsCall("topTenantsErrors", qWindow, qLimit,
                                 windowMinutes, limit,
                                 IF r.st = "rejected" THEN Rejected
                                 ELSE Res("ok", errorMetricsOf(r.evs, limit), 0))
    /\ UNCHANGED <<now, events, zset, ttl, redisUp, ready, EVENT_STORAGE>>
    /\ UNCHANGED lifecycle

\* GET /api/v1/analytics/top-tenants/latency
topTenantsLatency(qWindow, qLimit) ==
    /\ LET windowMinutes == orDefault(parseInt(qWindow), 5)
           limit == orDefault(parseInt(qLimit), 10)
           r == store_getEventsInWindow(aggregationStore, ready, windowMinutes)
       IN  last' = AnalyticsCall("topTenantsLatency", qWindow, qLimit,
                                 windowMinutes, limit,
                                 IF r.st = "rejected" THEN Rejected
                                 ELSE Res("ok", latencyMetricsOf(r.evs, limit), 0))
    /\ UNCHANGED <<now, events, zset, ttl, redisUp, ready, EVENT_STORAGE>>
    /\ UNCHANGED lifecycle

NextAnalytics ==
    \/ \E event \in AnalyticsEvents : storeEvent(event)
    \/ \E qWindow \in QueryTexts, qLimit \in QueryTexts :
           topTenantsErrors(qWindow, qLimit)
    \/ \E qWindow \in QueryTexts, qLimit \in QueryTexts :
           topTenantsLatency(qWindow, qLimit)
    \/ RedisDown
    \/ RedisBack

SpecAnalytics == InitAgg /\ [][NextAnalytics]_vars

(***************************************************************************)
(* Windows at and beyond the present.  The timestamps are the clients':    *)
(* the store holds events stamped before, at and after its own clock.      *)
(***************************************************************************)
\* events stamped 1 ms before the retention horizon at the start, at the
\* start, and one minute after the start
EdgeEvents == {EventPool[i] : i \in {1, 8, 20}}

NextEdge ==
    \/ \E event \in EdgeEvents : addEvent(event, "none")
    \/ getEventsInWindow(0)
    \/ \E limit \in Limits : aggregateErrorMetrics(-1, limit)
    \/ \E limit \in Limits : aggregateLatencyMetrics(-1, limit)
    \/ \E t \in Instants : Tick(t)
    \/ RedisDown
    \/ RedisBack

SpecEdge == Init /\ [][NextEdge]_vars

(***************************************************************************)
(* Members that addEvent did not write.  The sorted set is a key of a      *)
(* shared Redis: another writer can add a member that is not JSON, or a    *)
(* JSON object without timestamp or without tenant_id, under any score.    *)
(***************************************************************************)
\* the entries of the other writer: a text that is not JSON, an object
\* without timestamp, an object without tenant_id, an object with the empty
\* string as timestamp
CorruptEntries ==
    {[member |-> NotJson, score |-> 119000],
     [member |-> JSONstringify(EventPool[11]), score |-> 119001],
     [member |-> JSONstringify(EventPool[5]), score |-> 119002],
     [member |-> JSONstringify(EventPool[10]), score |-> 59000]}

\* the events added through addEvent next to them
SoundEvents == {EventPool[i] : i \in {1, 3, 8}}

\* ZADD by the other writer
corruptMember(entry) ==
    /\ redisUp
    /\ ZCard(zset) < MaxEvents + 1
    /\ zset' = ZAdd(zset, entry.score, entry.member)
    /\ last' = NoCall
    /\ UNCHANGED <<now, events, ttl, redisUp, ready, EVENT_STORAGE>>
    /\ UNCHANGED lifecycle

NextCorrupt ==
    \/ \E entry \in CorruptEntries : corruptMember(entry)
    \/ \E event \in SoundEvents : addEvent(event, "none")
    \/ \E windowMinutes \in Windows : getEventsInWindow(windowMinutes)
    \/ getAllEvents
    \/ \E t \in Instants : Tick(t)
    \/ RedisDown
    \/ RedisBack

SpecCorrupt == Init /\ [][NextCorrupt]_vars

(***************************************************************************)
(* Calls in flight.  addEvent suspends at await this.ready, at the ZADD    *)
(* and at the EXPIRE; Redis runs each command atomically, in the order the *)
(* commands of all calls reach it.  pending holds the calls of the current *)
(* batch with the await each is at, or how it settled.                     *)
(***************************************************************************)
\* most addEvent calls in flight at once
MaxInFlight == 3

\* the events added by the calls in flight
ConcurrentEvents == {EventPool[i] : i \in {1, 3, 8, 15}}

InFlight(c) == c.pc \in {"ready", "zAdd", "expire"}

\* Promise.all(events.map(event => buffer.addEvent(event))): every call runs
\* up to its first await.  prior and held record the count of the store and
\* whether it held the event when the batch began.
startBatch(batch) ==
    /\ \A c \in pending : ~InFlight(c)
    /\ batch # {}
    /\ Cardinality(batch) <= MaxInFlight
    /\ pending' = {[event |-> e, pc |-> "ready", prior |-> ZCard(zset),
                    held |-> \E x \in zset : x.member = JSONstringify(e)]
                   : e \in batch}
    /\ last' = NoCall
    /\ UNCHANGED <<now, events, zset, ttl, redisUp, ready, EVENT_STORAGE>>
    /\ UNCHANGED <<cleanupTimer, stopped, retries>>

\* the call c moves on to pc
Moved(c, pc) == (pending \ {c}) \cup {[c EXCEPT !.pc = pc]}

\* what the step leaves in last: the call, once it has settled
Settles(c, pc) ==
    IF pc = "resolved" THEN Call("addEvent", c.event, 0, "none", Void, Void, 0, 0)
    ELSE IF pc = "rejected"
    THEN Call("addEvent", c.event, 0, Fault, Void, Rejected, 0, 0)
    ELSE NoCall

\* await this.ready settles: the call rejects, or sends its ZADD
addEvent_awaitReady(c) ==
    /\ c.pc = "ready"
    /\ ready # "pending"
    /\ LET pc == IF awaitReady(ready) THEN "zAdd" ELSE "rejected"
       IN  pending' = Moved(c, pc) /\ last' = Settles(c, pc)
    /\ UNCHANGED <<now, events, zset, ttl, redisUp, ready, EVENT_STORAGE>>
    /\ UNCHANGED <<cleanupTimer, stopped, retries>>

\* Redis runs the ZADD of the call, or the command fails
addEvent_zAdd(c) ==
    /\ c.pc = "zAdd"
    /\ LET score == DateGetTime(c.event.timestamp)
           failed == ~redisUp \/ score.k # "num"
           pc == IF failed THEN "rejected" ELSE "expire"
       IN  /\ zset' = IF failed THEN zset
                      ELSE ZAdd(zset, score.v, JSONstringify(c.event))
           /\ pending' = Moved(c, pc)
           /\ last' = Settles(c, pc)
    /\ UNCHANGED <<now, events, ttl, redisUp, ready, EVENT_STORAGE>>
    /\ UNCHANGED <<cleanupTimer, stopped, retries>>

\* Redis runs the EXPIRE of the call, or the command fails
addEvent_expire(c) ==
    /\ c.pc = "expire"
    /\ LET pc == IF redisUp THEN "resolved" ELSE "rejected"
       IN  /\ ttl' = IF redisUp THEN now + expireSeconds * 1000 ELSE ttl
           /\ pending' = Moved(c, pc)
           /\ last' = Settles(c, pc)
    /\ UNCHANGED <<now, events, zset, redisUp, ready, EVENT_STORAGE>>
    /\ UNCHANGED <<cleanupTimer, stopped, retries>>

NextConcurrent ==
    \/ \E batch \in SUBSET ConcurrentEvents : startBatch(batch)
    \/ \E c \in pending : addEvent_awaitReady(c)
    \/ \E c \in pending : addEvent_zAdd(c)
    \/ \E c \in pending : addEvent_expire(c)
    \/ ready # "pending" /\ getEventCount
    \/ initializeDone
    \/ initializeFailed
    \/ RedisDown
    \/ RedisBack

SpecConcurrent == InitSweep /\ [][NextConcurrent]_vars

(***************************************************************************)
(* cleanup() in flight next to addEvent calls.  The in-memory store runs   *)
(* addEvent and cleanup to completion when they are called.  The Redis     *)
(* cleanup suspends at await this.ready and at its ZREMRANGEBYSCORE, whose *)
(* bound it computed before it sent the command.                           *)
(***************************************************************************)
\* events stamped 1 ms behind the retention horizon at the start, on it,
\* and at the start
RaceEvents == {EventPool[i] : i \in {1, 3, 8}}

CleanupInFlight(c) == c.pc \in {"cleanup.ready", "cleanup.zRem"}

IsCleanup(c) == c.pc \in {"cleanup.ready", "cleanup.zRem", "cleanup.done",
                          "cleanup.rejected"}

\* the events of a batch in the order of the calls
RECURSIVE InCallOrder(_)
InCallOrder(batch) ==
    IF batch = {} THEN <<>>
    ELSE LET i == CHOOSE i \in 1..Len(EventPool) :
                      /\ EventPool[i] \in batch
                      /\ \A j \in 1..(i - 1) : EventPool[j] \notin batch
         IN  <<EventPool[i]>> \o InCallOrder(batch \ {EventPool[i]})

\* addEvent is called for every event of the batch on both stores: the
\* in-memory store has pushed them when the calls return, the calls on the
\* Redis store are at their first await
startAdds(batch) ==
    /\ \A c \in pending : ~InFlight(c)
    /\ batch # {}
    /\ Len(events) + Cardinality(batch) <= MaxInFlight
    /\ events' = events \o InCallOrder(batch)
    /\ pending' = {c \in pending : IsCleanup(c)} \cup
                  {[event |-> e, pc |-> "ready", prior |-> ZCard(zset),
                    held |-> \E x \in zset : x.member = JSONstringify(e)]
                   : e \in batch}
    /\ last' = NoCall
    /\ UNCHANGED <<now, zset, ttl, redisUp, ready, EVENT_STORAGE>>
    /\ UNCHANGED <<cleanupTimer, stopped, retries>>

\* cleanup() is called on both stores: the in-memory store has filtered its
\* events when the call returns, the call on the Redis store is at its
\* first await
startCleanup ==
    /\ \A c \in pending : ~CleanupInFlight(c)
    /\ LET kept == EventBuffer_cleanup(events, now)
       IN  /\ events' = kept
           /\ last' = Call("cleanup", NoEvent, 0, "none",
                           Res("ok", <<>>, Len(events) - Len(kept)), Void, 0, 0)
    /\ pending' = {c \in pending : ~IsCleanup(c)} \cup
                  {[pc |-> "cleanup.ready", cutoffMs |-> 0]}
    /\ UNCHANGED <<now, zset, ttl, redisUp, ready, EVENT_STORAGE>>
    /\ UNCHANGED <<cleanupTimer, stopped, retries>>

\* await this.ready settles: cleanup rejects, or computes cutoffMs and sends
\* its ZREMRANGEBYSCORE
cleanup_awaitReady(c) ==
    /\ c.pc = "cleanup.ready"
    /\ ready # "pending"
    /\ pending' = (pending \ {c}) \cup
           {IF awaitReady(ready)
            THEN [pc |-> "cleanup.zRem", cutoffMs |-> now - retentionMs]
            ELSE [pc |-> "cleanup.rejected", cutoffMs |-> 0]}
    /\ last' = NoCall
    /\ UNCHANGED <<now, events, zset, ttl, redisUp, ready, EVENT_STORAGE>>
    /\ UNCHANGED <<cleanupTimer, stopped, retries>>

\* Redis runs the ZREMRANGEBYSCORE, or the command fails and cleanup
\* returns 0 from its catch block
cleanup_zRem(c) ==
    /\ c.pc = "cleanup.zRem"
    /\ LET left == IF redisUp THEN ZRemRangeByScore(zset, c.cutoffMs) ELSE zset
       IN  /\ zset' = left
           /\ ttl' = IF left = {} THEN NoTTL ELSE ttl
           /\ last' = Call("cleanup", NoEvent, 0, Fault, Void,
                           Res("ok", <<>>, ZCard(zset) - ZCard(left)), 0, 0)
    /\ pending' = (pending \ {c}) \cup {[c EXCEPT !.pc = "cleanup.done"]}
    /\ UNCHANGED <<now, events, redisUp, ready, EVENT_STORAGE>>
    /\ UNCHANGED <<cleanupTimer, stopped, retries>>

NextRace ==
    \/ \E batch \in SUBSET RaceEvents : startAdds(batch)
    \/ startCleanup
    \/ \E c \in pending : addEvent_awaitReady(c)
    \/ \E c \in pending : addEvent_zAdd(c)
    \/ \E c \in pending : addEvent_expire(c)
    \/ \E c \in pending : cleanup_awaitReady(c)
    \/ \E c \in pending : cleanup_zRem(c)
    \/ initializeDone
    \/ initializeFailed
    \/ RedisDown
    \/ RedisBack

SpecRace == InitSweep /\ [][NextRace]_vars

(***************************************************************************)
(* The factory (eventBuffer.factory), called with and without its          *)
(* parameters under every value of the flag.                               *)
(***************************************************************************)
\* values of process.env.EVENT_STORAGE: unset, the two documented ones, and
\* others
FactoryEnvs == {"", "memory", "redis", "REDIS", "Redis", "redis ", "rediss", "0"}

\* arguments of createEventBuffer: left out, or a number of minutes
FactoryArgs == {Absent, Num(1), Num(15), Num(30)}

\* a parameter with a default value: the default replaces undefined
defaultParam(arg, dflt) == IF arg.k = "missing" THEN dflt ELSE arg.v

\* the constructor of either store
newStore(impl, retentionMinutes, cleanupIntervalMinutes) ==
    [impl |-> impl,
     retentionMs |-> defaultParam(retentionMinutes, 15) * 60 * 1000,
     cleanupIntervalMs |-> defaultParam(cleanupIntervalMinutes, 1) * 60 * 1000]

\* a call of createEventBuffer, the flag it saw and the store it returned
FactoryCall(env, retentionMinutes, cleanupIntervalMinutes, store) ==
    [op |-> "createEventBuffer", event |-> NoEvent, windowMinutes |-> 0,
     fault |-> "none", mem |-> Void, redis |-> Void, status |-> 0, calls |-> 0,
     env |-> env, retentionMinutes |-> retentionMinutes,
     cleanupIntervalMinutes |-> cleanupIntervalMinutes, store |-> store]

\* createEventBuffer(retentionMinutes = 15, cleanupIntervalMinutes = 1)
callCreateEventBuffer(retentionMinutes, cleanupIntervalMinutes) ==
    /\ LET retention == Num(defaultParam(retentionMinutes, 15))
           interval == Num(defaultParam(cleanupIntervalMinutes, 1))
       IN  last' = FactoryCall(EVENT_STORAGE, retentionMinutes,
                               cleanupIntervalMinutes,
                               newStore(createEventBuffer(EVENT_STORAGE),
                                        retention, interval))
    /\ UNCHANGED <<now, events, zset, ttl, redisUp, ready, EVENT_STORAGE>>
    /\ UNCHANGED lifecycle

\* the environment variable is set, or unset, before the next call
setEnv(value) ==
    /\ value # EVENT_STORAGE
    /\ EVENT_STORAGE' = value
    /\ last' = NoCall
    /\ UNCHANGED <<now, events, zset, ttl, redisUp, ready>>
    /\ UNCHANGED lifecycle

InitFactory ==
    /\ now = StartMs
    /\ events = <<>>
    /\ zset = {}
    /\ ttl = NoTTL
    /\ ready = "resolved"
    /\ redisUp = TRUE
    /\ EVENT_STORAGE \in FactoryEnvs
    /\ last = NoCall
    /\ Settled

NextFactory ==
    \/ \E retentionMinutes \in FactoryArgs, cleanupIntervalMinutes \in FactoryArgs :
           callCreateEventBuffer(retentionMinutes, cleanupIntervalMinutes)
    \/ \E value \in FactoryEnvs : setEnv(value)

SpecFactory == InitFactory /\ [][NextFactory]_vars

(***************************************************************************)
(* The SDK (sdk/src/middleware/observability.ts).  A request runs through  *)
(* the middleware once; its response then finishes, which emits 'finish'   *)
(* once, or the connection closes before.  A path is the sequence of its   *)
(* characters.                                                             *)
(***************************************************************************)
\* most requests in flight at once
MaxRequests == 2

EventsPrefix ==
    <<"/", "a", "p", "i", "/", "v", "1", "/", "e", "v", "e", "n", "t",
      "s">>

AnalyticsPrefix ==
    <<"/", "a", "p", "i", "/", "v", "1", "/", "a", "n", "a", "l", "y",
      "t", "i", "c", "s">>

\* the request paths: /api/v1/users, /api/v1/event, /api/v1/events,
\* /api/v1/events/batch, /api/v1/eventsource, /api/v1/analytics/top,
\* /x/api/v1/events
RequestPaths ==
    {<<"/", "a", "p", "i", "/", "v", "1", "/", "u", "s", "e", "r", "s">>,
     <<"/", "a", "p", "i", "/", "v", "1", "/", "e", "v", "e", "n", "t">>,
     EventsPrefix,
     EventsPrefix \o <<"/", "b", "a", "t", "c", "h">>,
     EventsPrefix \o <<"o", "u", "r", "c", "e">>,
     AnalyticsPrefix \o <<"/", "t", "o", "p">>,
     <<"/", "x", "/", "a", "p", "i", "/", "v", "1", "/", "e", "v", "e", "n", "t", "s">>}

\* config.enabled as the application passes it: not given, true, false, or
\* given as undefined
EnabledOptions == {"absent", "true", "false", "undefined"}

\* String.prototype.startsWith
startsWith(string, searchString) ==
    /\ Len(string) >= Len(searchString)
    /\ SubSeq(string, 1, Len(searchString)) = searchString

\* a variant of the path test that matches the two paths themselves only
internalEndpoint_exact(path) == path \in {EventsPrefix, AnalyticsPrefix}

\* the path test of the middleware
internalEndpoint(path) ==
    startsWith(path, EventsPrefix) \/ startsWith(path, AnalyticsPrefix)

\* finalConfig.enabled of { ...defaultConfig, ...config }, as a condition
finalConfigEnabled(enabled) ==
    IF enabled = "absent" THEN TRUE ELSE enabled = "true"

\* a request arrives at an application that uses the middleware
requestReceived(path, enabled) ==
    /\ Cardinality(pending) < MaxRequests
    /\ pending' = pending \cup
           {[pc |-> "received", path |-> path, enabled |-> enabled,
             nextCalls |-> 0, listeners |-> 0, sent |-> 0]}
    /\ last' = NoCall
    /\ UNCHANGED <<now, events, zset, ttl, redisUp, ready, EVENT_STORAGE>>
    /\ UNCHANGED <<cleanupTimer, stopped, retries>>

\* the middleware function runs for the request
observabilityMiddleware(c) ==
    /\ c.pc = "received"
    /\ LET tracked == ~internalEndpoint(c.path) /\ finalConfigEnabled(c.enabled)
       IN  pending' = (pending \ {c}) \cup
               {[c EXCEPT !.pc = "handling",
                          !.nextCalls = @ + 1,
                          !.listeners = IF tracked THEN @ + 1 ELSE @]}
    /\ last' = NoCall
    /\ UNCHANGED <<now, events, zset, ttl, redisUp, ready, EVENT_STORAGE>>
    /\ UNCHANGED <<cleanupTimer, stopped, retries>>

\* the response finishes: every 'finish' listener builds its event and calls
\* sendToIngestionAPI, whose failure is caught and logged
responseFinished(c) ==
    /\ c.pc = "handling"
    /\ pending' = (pending \ {c}) \cup
           {[c EXCEPT !.pc = "finished", !.sent = @ + c.listeners]}
    /\ last' = NoCall
    /\ UNCHANGED <<now, events, zset, ttl, redisUp, ready, EVENT_STORAGE>>
    /\ UNCHANGED <<cleanupTimer, stopped, retries>>

\* the connection closes before the response has finished
responseAborted(c) ==
    /\ c.pc = "handling"
    /\ pending' = (pending \ {c}) \cup {[c EXCEPT !.pc = "aborted"]}
    /\ last' = NoCall
    /\ UNCHANGED <<now, events, zset, ttl, redisUp, ready, EVENT_STORAGE>>
    /\ UNCHANGED <<cleanupTimer, stopped, retries>>

\* the request object is released
requestReleased(c) ==
    /\ c.pc \in {"finished", "aborted"}
    /\ pending' = pending \ {c}
    /\ last' = NoCall
    /\ UNCHANGED <<now, events, zset, ttl, redisUp, ready, EVENT_STORAGE>>
    /\ UNCHANGED <<cleanupTimer, stopped, retries>>

NextSdk ==
    \/ \E path \in RequestPaths, enabled \in EnabledOptions :
           requestReceived(path, enabled)
    \/ \E c \in pending : observabilityMiddleware(c)
    \/ \E c \in pending : responseFinished(c)
    \/ \E c \in pending : responseAborted(c)
    \/ \E c \in pending : requestReleased(c)

SpecSdk == InitFactory /\ [][NextSdk]_vars

(***************************************************************************)
(* The ingestion route next to the operations that remove events: cleanup, *)
(* clear, and the expiration of the key.                                   *)
(***************************************************************************)
NextIngest ==
    \/ \E event \in RequestBodies, fault \in {"none", "zAdd", "expire"} :
           postEvents(event, fault)
    \/ \E q \in QueryWindows : debugEvents(q)
    \/ cleanup
    \/ clear
    \/ \E t \in Instants : Tick(t)
    \/ RedisDown
    \/ RedisBack

SpecIngest == InitApp /\ [][NextIngest]_vars

(***************************************************************************)
(* The shared client (redis/client.ts).  In this specification ready holds *)
(* the state of the module: redisClient, the module variable, is 0 for     *)
(* null or the number of the client it refers to, and connect gives for    *)
(* every client created so far the state of its connect() promise:         *)
(* "pending", "resolved", "rejected", or "quit" once quit() has ended the  *)
(* client.  pending holds the calls suspended at an await and retries the  *)
(* connection attempts that the connect() under way has seen fail.  A      *)
(* store's initialize() keeps whatever the call resolves to as its client. *)
(***************************************************************************)
MaxClients == 3

\* let redisClient = null
NoClient == 0

ClientModule(redisClient, connect) ==
    [redisClient |-> redisClient, connect |-> connect]

\* what a call of getRedisClient settled with: the client it resolved to
\* and the state of that client's connect() at that moment
ClientCall(st, client, connect) ==
    Call("getRedisClient", NoEvent, 0, "none", Void,
         Res(st, <<connect>>, client), 0, 0)

\* return redisClient
returnRedisClient(module) ==
    IF module.redisClient = NoClient
    THEN ClientCall("ok", NoClient, "none")
    ELSE ClientCall("ok", module.redisClient,
                    module.connect[module.redisClient])

\* getRedisClient up to its first await: with no client it creates one,
\* assigns it to redisClient and suspends at connect(); with a client it
\* returns it at once
getRedisClient ==
    /\ IF ready.redisClient = NoClient
       THEN /\ Len(ready.connect) < MaxClients
            /\ LET c == Len(ready.connect) + 1
               IN  /\ ready' = ClientModule(c, Append(ready.connect, "pending"))
                   /\ pending' = pending \cup {[pc |-> "connect", client |-> c]}
            /\ retries' = 0
            /\ last' = NoCall
       ELSE /\ last' = returnRedisClient(ready)
            /\ UNCHANGED <<ready, pending, retries>>
    /\ UNCHANGED <<now, events, zset, ttl, redisUp, EVENT_STORAGE>>
    /\ UNCHANGED <<cleanupTimer, stopped>>

\* an attempt of connect() fails and reconnectStrategy gives a delay: the
\* call stays suspended
connectAttemptFailed(c) ==
    /\ c \in pending
    /\ c.pc = "connect"
    /\ ~redisUp
    /\ reconnectStrategy(retries).k = "delay"
    /\ retries' = retries + 1
    /\ last' = NoCall
    /\ UNCHANGED <<now, events, zset, ttl, redisUp, ready, EVENT_STORAGE>>
    /\ UNCHANGED <<cleanupTimer, stopped, pending>>

\* connect() resolves and the call goes on to return redisClient
connectResolved(c) ==
    /\ c \in pending
    /\ c.pc = "connect"
    /\ redisUp
    /\ ready' = [ready EXCEPT !.connect[c.client] = "resolved"]
    /\ pending' = pending \ {c}
    /\ last' = returnRedisClient(ready')
    /\ UNCHANGED <<now, events, zset, ttl, redisUp, EVENT_STORAGE>>
    /\ UNCHANGED <<cleanupTimer, stopped, retries>>

\* an attempt fails and reconnectStrategy gives an Error: connect() rejects
\* and so does the call; redisClient keeps the client
connectRejected(c) ==
    /\ c \in pending
    /\ c.pc = "connect"
    /\ ~redisUp
    /\ reconnectStrategy(retries).k = "error"
    /\ ready' = [ready EXCEPT !.connect[c.client] = "rejected"]
    /\ pending' = pending \ {c}
    /\ last' = ClientCall("rejected", c.client, "rejected")
    /\ UNCHANGED <<now, events, zset, ttl, redisUp, EVENT_STORAGE>>
    /\ UNCHANGED <<cleanupTimer, stopped, retries>>

\* closeRedisClient up to its await, called on a connected client while no
\* other close is under way
closeRedisClient ==
    /\ ready.redisClient # NoClient
    /\ ready.connect[ready.redisClient] = "resolved"
    /\ \A c \in pending : c.pc # "quit"
    /\ pending' = pending \cup {[pc |-> "quit", client |-> ready.redisClient]}
    /\ last' = NoCall
    /\ UNCHANGED <<now, events, zset, ttl, redisUp, ready, EVENT_STORAGE>>
    /\ UNCHANGED <<cleanupTimer, stopped, retries>>

\* quit() resolves: redisClient = null
quitResolved(c) ==
    /\ c \in pending
    /\ c.pc = "quit"
    /\ redisUp
    /\ ready' = ClientModule(NoClient, [ready.connect EXCEPT ![c.client] = "quit"])
    /\ pending' = pending \ {c}
    /\ last' = NoCall
    /\ UNCHANGED <<now, events, zset, ttl, redisUp, EVENT_STORAGE>>
    /\ UNCHANGED <<cleanupTimer, stopped, retries>>

InitClient ==
    /\ now = StartMs
    /\ events = <<>>
    /\ zset = {}
    /\ ttl = NoTTL
    /\ ready = ClientModule(NoClient, <<>>)
    /\ redisUp \in BOOLEAN
    /\ EVENT_STORAGE = "redis"
    /\ last = NoCall
    /\ cleanupTimer = [mem |-> "armed", redis |-> "undefined"]
    /\ stopped = {}
    /\ retries = 0
    /\ pending = {}

NextClient ==
    \/ getRedisClient
    \/ \E c \in pending : connectResolved(c)
    \/ \E c \in pending : connectAttemptFailed(c)
    \/ \E c \in pending : connectRejected(c)
    \/ closeRedisClient
    \/ \E c \in pending : quitResolved(c)
    \/ RedisDown
    \/ RedisBack

SpecClient == InitClient /\ [][NextClient]_vars

(***************************************************************************)
(* Properties.                                                             *)
(***************************************************************************)
Range(seq) == {seq[i] : i \in 1..Len(seq)}

Count(seq, x) == Cardinality({i \in 1..Len(seq) : seq[i] = x})

\* the events held by the sorted set
Stored(z) == {JSONparse(x.member) : x \in z}

\* the event carries a parseable timestamp of at least cutoff
AtOrAfter(event, cutoff) ==
    event.timestamp.k = "iso" /\ event.timestamp.ms >= cutoff

\* the event carries a parseable timestamp before cutoff
Before(event, cutoff) ==
    event.timestamp.k = "iso" /\ event.timestamp.ms < cutoff

\* an event that deserializeEvent accepts
WellFormed(event) == ~FalsyTs(event.timestamp) /\ ~Falsy(event.tenant_id)

StorageReachable == ready = "resolved" /\ last.fault = "none"

\* C1: at the instant now, getEventsInWindow(w) of the in-memory store
\* returns each stored event with timestamp >= now - w*60000 as often as it
\* is stored and no other event; the Redis store returns only stored events
\* with timestamp >= now - w*60000, each once, and every well-formed one of
\* them.  An event at the cutoff is in, an event 1 ms older is out.
C1_WindowInclusive ==
    last.op = "getEventsInWindow" =>
        LET cutoff == now - last.windowMinutes * 60000
        IN  /\ \A e \in StoreEvents :
                   Count(last.mem.evs, e) =
                       IF AtOrAfter(e, cutoff) THEN Count(events, e) ELSE 0
            /\ StorageReachable =>
                   /\ last.redis.st = "ok"
                   /\ \A e \in Range(last.redis.evs) :
                          /\ e \in Stored(zset)
                          /\ AtOrAfter(e, cutoff)
                          /\ Count(last.redis.evs, e) = 1
                   /\ \A e \in Stored(zset) :
                          WellFormed(e) /\ AtOrAfter(e, cutoff)
                              => e \in Range(last.redis.evs)

\* C1 witness: both stores hold an event at the cutoff and one 1 ms older,
\* and the call returned the first only
C1_Witness ==
    /\ last.op = "getEventsInWindow"
    /\ last.windowMinutes = 1
    /\ StorageReachable
    /\ LET cutoff == now - 60000
       IN  /\ \E e \in Range(events) : WellFormed(e) /\ e.timestamp = Iso(cutoff)
           /\ \E e \in Range(events) : e.timestamp = Iso(cutoff - 1)
           /\ Stored(zset) = Range(events)
           /\ Len(last.mem.evs) = 1 /\ last.mem.evs[1].timestamp = Iso(cutoff)
           /\ last.redis.evs = last.mem.evs

\* C2: an addEvent of the Redis store during which a command fails rejects,
\* and an addEvent that resolves has written its event to the sorted set
C2_WriteNeverSilentlyLost ==
    last.op = "addEvent" =>
        /\ last.fault # "none" => last.redis.st = "rejected"
        /\ last.redis.st = "ok" =>
               \E x \in zset : x.member = JSONstringify(last.event)

\* C2 witness: the ZADD of an addEvent failed and the call rejected without
\* the event in the set
C2_Witness ==
    /\ last.op = "addEvent"
    /\ ready = "resolved"
    /\ last.fault = "zAdd"
    /\ last.redis.st = "rejected"
    /\ \A x \in zset : x.member # JSONstringify(last.event)

\* C3 as claimed: on every storage failure, the failed initial connection
\* included, the three read methods of the Redis store resolve to the empty
\* list or 0
C3_ReadsNeverReject ==
    /\ last.op \in {"getEventsInWindow", "getAllEvents", "getEventCount"}
    /\ ~StorageReachable
    => last.redis = Res("ok", <<>>, 0)

\* the two stores hold the same events in the same order
SameContent ==
    LET members == ZRange(zset)
    IN  events = [i \in 1..Len(members) |-> JSONparse(members[i])]

StoreOps ==
    {"addEvent", "getEventsInWindow", "getAllEvents", "getEventCount",
     "cleanup", "clear"}

\* C4 as claimed: with storage reachable, a call made on both stores when
\* they hold the same events returns the same result from both
C4_SameResults ==
    [][ /\ SameContent
        /\ ready = "resolved"
        /\ last'.op \in StoreOps
        /\ last'.fault = "none"
        => last'.mem = last'.redis ]_vars

\* C5 as claimed: a successful addEvent raises getEventCount by one in both
\* stores, whatever the event
C5_AddAlwaysAddsOne ==
    [][ /\ last'.op = "addEvent"
        /\ last'.redis.st = "ok"
        => /\ EventBuffer_getEventCount(events') =
                  EventBuffer_getEventCount(events) + 1
           /\ RedisEventBuffer_getEventCount(zset', ready, TRUE).n =
                  RedisEventBuffer_getEventCount(zset, ready, TRUE).n + 1 ]_vars

\* C6 as claimed: cleanup removes the events with a timestamp strictly
\* before now - retentionMs, keeps the events at or after it, and returns
\* the number of events it removed, in both stores
C6_CleanupStrict ==
    [][ /\ last'.op = "cleanup"
        /\ ready = "resolved"
        /\ last'.fault = "none"
        => LET cutoff == now - retentionMs
           IN  /\ \A e \in Range(events) :
                      /\ AtOrAfter(e, cutoff) => Count(events', e) = Count(events, e)
                      /\ Before(e, cutoff) => Count(events', e) = 0
               /\ last'.mem.n = Len(events) - Len(events')
               /\ \A e \in Stored(zset) :
                      /\ AtOrAfter(e, cutoff) => e \in Stored(zset')
                      /\ Before(e, cutoff) => e \notin Stored(zset')
               /\ last'.redis.n = ZCard(zset) - ZCard(zset') ]_vars

\* the parseable timestamps of a list never decrease
OldestFirst(evs) ==
    \A i, j \in 1..Len(evs) :
        i < j /\ evs[i].timestamp.k = "iso" /\ evs[j].timestamp.k = "iso"
            => evs[i].timestamp.ms <= evs[j].timestamp.ms

\* C7 as claimed: getEventsInWindow and getAllEvents of both stores return
\* the events oldest first
C7_OldestFirst ==
    last.op \in {"getEventsInWindow", "getAllEvents"} =>
        OldestFirst(last.mem.evs) /\ OldestFirst(last.redis.evs)

\* C8 as claimed: for either value of the flag, an event for which the
\* ingestion route answered 201 is returned to the debug routes and to the
\* aggregation by the store they read
C8_OneSharedStore ==
    last.op = "postEvents" /\ last.status = 201 =>
        /\ last.event \in
               Range(store_getEventsInWindow(debugStore, factoryReady, 15).evs)
        /\ last.event \in
               Range(store_getEventsInWindow(aggregationStore, ready, 5).evs)

\* one of the three required fields is absent or the empty string
LacksRequired(event) ==
    \/ event.tenant_id \in {"", Missing}
    \/ event.timestamp.k \in {"empty", "missing"}
    \/ event.endpoint \in {"", Missing}

\* C9: every event the ingestion route has put in its store has a
\* non-empty tenant_id, timestamp and endpoint, and a request lacking one
\* of them is answered 400 without a call of addEvent
C9_StoredEventsComplete ==
    /\ \A e \in Stored(zset) : ~LacksRequired(e)
    /\ last.op = "postEvents" /\ LacksRequired(last.event)
           => last.status = 400 /\ last.calls = 0

\* C9 witness: a request with an empty endpoint was answered 400 while the
\* store holds an accepted event
C9_Witness ==
    /\ last.op = "postEvents"
    /\ last.event.endpoint = ""
    /\ last.status = 400
    /\ last.calls = 0
    /\ zset # {}

\* C10: for a request that passes validation the ingestion route calls
\* addEvent once, and answers 201 when the call resolved and 500 when it
\* rejected
C10_OneCallNoRetry ==
    last.op = "postEvents" /\ ~LacksRequired(last.event) =>
        /\ last.calls = 1
        /\ \/ last.redis.st = "ok" /\ last.status = 201
           \/ last.redis.st = "rejected" /\ last.status = 500

\* C10 witness: addEvent rejected on a failed ZADD, the route answered 500
\* after its single call, and an earlier request had been stored
C10_Witness ==
    /\ last.op = "postEvents"
    /\ ready = "resolved"
    /\ last.fault = "zAdd"
    /\ last.redis.st = "rejected"
    /\ last.status = 500
    /\ last.calls = 1
    /\ zset # {}

\* the events of the window of the last aggregation call: the stored events
\* with a timestamp of at least now - windowMinutes * 60000
WindowEvents ==
    {e \in Stored(zset) : AtOrAfter(e, now - last.windowMinutes * 60000)}

\* the window events of one tenant
WindowEventsOf(tenant) == {e \in WindowEvents : e.tenant_id = tenant}

ErrorsResolved == last.op = "aggregateErrorMetrics" /\ last.redis.st = "ok"

LatenciesResolved ==
    last.op = "aggregateLatencyMetrics" /\ last.redis.st = "ok"

\* C11: every entry of a result of aggregateErrorMetrics has total_requests
\* = the number of window events of its tenant, error_count = the number of
\* those with status_code >= 500, and error_rate = error_count /
\* total_requests
C11_ErrorCounts ==
    ErrorsResolved =>
        \A i \in 1..Len(last.redis.evs) :
            LET m == last.redis.evs[i]
                mine == WindowEventsOf(m.tenant_id)
                failed == {e \in mine : e.status_code.k = "num"
                                        /\ e.status_code.v >= 500}
            IN  /\ m.total_requests = Cardinality(mine)
                /\ m.error_count = Cardinality(failed)
                /\ m.error_rate.k = "num"
                /\ m.error_rate.v * m.total_requests
                       = m.error_count * m.error_rate.d

\* C11 witness: tenant c with a 404, a 500 and a 503 in the window is
\* reported with 3 requests and 2 errors
C11_Witness ==
    /\ ErrorsResolved
    /\ \E i \in 1..Len(last.redis.evs) :
           /\ last.redis.evs[i].tenant_id = "c"
           /\ last.redis.evs[i].total_requests = 3
           /\ last.redis.evs[i].error_count = 2
           /\ \E e \in WindowEventsOf("c") : e.status_code = Num(404)

\* C12: in a result of aggregateErrorMetrics, of two consecutive entries a
\* and b either a.error_rate > b.error_rate, or the rates are equal and
\* a.error_count >= b.error_count
C12_ErrorRanking ==
    ErrorsResolved =>
        \A i \in 1..(Len(last.redis.evs) - 1) :
            LET a == last.redis.evs[i]
                b == last.redis.evs[i + 1]
            IN  \/ a.error_rate.v * b.error_rate.d > b.error_rate.v * a.error_rate.d
                \/ /\ a.error_rate.v * b.error_rate.d = b.error_rate.v * a.error_rate.d
                   /\ a.error_count >= b.error_count

\* C12 witness: tenant b, whose event is the oldest of the window, has one
\* error out of one request, tenant a two out of two: a is ranked first
C12_Witness ==
    /\ ErrorsResolved
    /\ Len(last.redis.evs) = 2
    /\ EventPool[13] \in WindowEvents
    /\ last.redis.evs[1].tenant_id = "a"
    /\ last.redis.evs[1].error_count = 2
    /\ last.redis.evs[1].total_requests = 2
    /\ last.redis.evs[2].tenant_id = "b"
    /\ last.redis.evs[2].error_count = 1
    /\ last.redis.evs[2].total_requests = 1

\* the window as the last aggregation call read it: nothing when the
\* command failed
ReadWindow == IF last.fault = "none" THEN WindowEvents ELSE {}

\* the list getEventsInWindow handed to the last aggregation call
ReadList == store_getEventsInWindow(aggregationStore, ready, last.windowMinutes).evs

\* the tenants that the two aggregations rank
ErrorTenants == {e.tenant_id : e \in ReadWindow} \ {"", Missing}

LatencyTenants ==
    {e.tenant_id : e \in {x \in ReadWindow : x.latency_ms.k = "num"
                                             /\ x.latency_ms.v >= 0}}
        \ {"", Missing}

Smaller(m, n) == IF m < n THEN m ELSE n

\* C13: for limit >= 1 a result of either aggregation is the first
\* min(limit, T) entries of the full ranking of the T ranked tenants
C13_TopN ==
    /\ ErrorsResolved /\ last.limit >= 1 =>
           LET full == errorMetricsOf(ReadList, Len(ReadList))
               T == Cardinality(ErrorTenants)
           IN  /\ Len(full) = T
               /\ Len(last.redis.evs) = Smaller(last.limit, T)
               /\ last.redis.evs = SubSeq(full, 1, Smaller(last.limit, T))
    /\ LatenciesResolved /\ last.limit >= 1 =>
           LET full == latencyMetricsOf(ReadList, Len(ReadList))
               T == Cardinality(LatencyTenants)
           IN  /\ Len(full) = T
               /\ Len(last.redis.evs) = Smaller(last.limit, T)
               /\ last.redis.evs = SubSeq(full, 1, Smaller(last.limit, T))

\* C13 witness: three tenants in the window and limit 2: the result holds
\* the two tenants with the highest error rates
C13_Witness ==
    /\ ErrorsResolved
    /\ last.limit = 2
    /\ Cardinality(ErrorTenants) = 3
    /\ Len(last.redis.evs) = 2
    /\ \E t \in ErrorTenants :
           \A i \in 1..2 : last.redis.evs[i].tenant_id # t

\* twice the latency of an event, a whole number for the latencies of the
\* model (whole and half milliseconds)
Halves(e) == (2 * e.latency_ms.v) \div e.latency_ms.d

\* the window events of a tenant whose latency is a number >= 0
ValidOf(tenant) ==
    {e \in WindowEventsOf(tenant) : e.latency_ms.k = "num" /\ e.latency_ms.v >= 0}

RECURSIVE HalvesSum(_)
HalvesSum(S) ==
    IF S = {} THEN 0
    ELSE LET e == CHOOSE x \in S : TRUE
         IN  Halves(e) + HalvesSum(S \ {e})

\* r is x / (2 * n) rounded to the nearest integer
NearestTo(r, x, n) == x - n <= 2 * n * r /\ 2 * n * r <= x + n

\* e carries the k-th smallest latency of S
KthSmallest(e, S, k) ==
    /\ e \in S
    /\ Cardinality({x \in S : Halves(x) < Halves(e)}) < k
    /\ k <= Cardinality({x \in S : Halves(x) <= Halves(e)})

\* the latency entry of a tenant with the latencies 1, 2, ..., 100
Latencies1To100 ==
    tenantLatencyMetrics(
        [tenantId |-> "a",
         tenantEvents |-> [i \in 1..100 |->
                              Ev(Iso(60000), "a", "/x", Num(200), Num(101 - i))]])

\* C14: in a result of aggregateLatencyMetrics mean_latency is the mean of
\* the tenant's valid latencies rounded to the nearest integer and
\* p95_latency the valid latency at the 1-based position ceil(0.95 * n) of
\* the ascending order, rounded to the nearest integer; the latencies
\* 1..100 give mean 51 and p95 95
C14_MeanAndP95 ==
    /\ Latencies1To100.mean_latency = 51
    /\ Latencies1To100.p95_latency = 95
    /\ LatenciesResolved =>
           \A i \in 1..Len(last.redis.evs) :
               LET m == last.redis.evs[i]
                   valid == ValidOf(m.tenant_id)
                   n == Cardinality(valid)
               IN  /\ n >= 1
                   /\ NearestTo(m.mean_latency, HalvesSum(valid), n)
                   /\ \E e \in valid :
                          /\ KthSmallest(e, valid, CeilDiv(95 * n, 100))
                          /\ NearestTo(m.p95_latency, Halves(e), 1)

\* C14 witness: tenant b with the valid latencies 51 and 300 (and a NaN
\* one) is reported with mean 176 and p95 300
C14_Witness ==
    /\ LatenciesResolved
    /\ Cardinality(ValidOf("b")) = 2
    /\ Cardinality(WindowEventsOf("b")) = 3
    /\ \E i \in 1..Len(last.redis.evs) :
           /\ last.redis.evs[i].tenant_id = "b"
           /\ last.redis.evs[i].mean_latency = 176
           /\ last.redis.evs[i].p95_latency = 300

\* C15: a latency counts only if it is a number, not NaN and >= 0: mean and
\* p95 of an entry lie between the smallest and the largest valid latency
\* of the tenant, total_requests counts all window events of the tenant,
\* and the tenants of the result are tenants with a valid latency, all of
\* them when the limit does not truncate
C15_InvalidLatencies ==
    LatenciesResolved =>
        /\ \A i \in 1..Len(last.redis.evs) :
               LET m == last.redis.evs[i]
                   valid == ValidOf(m.tenant_id)
               IN  /\ valid # {}
                   /\ m.total_requests = Cardinality(WindowEventsOf(m.tenant_id))
                   /\ \E lo \in valid, hi \in valid :
                          /\ Halves(lo) - 1 <= 2 * m.mean_latency
                          /\ 2 * m.mean_latency <= Halves(hi) + 1
                          /\ Halves(lo) - 1 <= 2 * m.p95_latency
                          /\ 2 * m.p95_latency <= Halves(hi) + 1
        /\ {last.redis.evs[i].tenant_id : i \in 1..Len(last.redis.evs)}
               \subseteq LatencyTenants
        /\ last.limit >= Cardinality(LatencyTenants) =>
               {last.redis.evs[i].tenant_id : i \in 1..Len(last.redis.evs)}
                   = LatencyTenants

\* C15 witness: tenant c has the latencies 200.5, -50 and none: its entry
\* counts 3 requests with mean and p95 201
C15_Witness ==
    /\ LatenciesResolved
    /\ Cardinality(WindowEventsOf("c")) = 3
    /\ \E i \in 1..Len(last.redis.evs) :
           /\ last.redis.evs[i].tenant_id = "c"
           /\ last.redis.evs[i].total_requests = 3
           /\ last.redis.evs[i].mean_latency = 201
           /\ last.redis.evs[i].p95_latency = 201

\* C16: a result of aggregateLatencyMetrics is ordered by descending
\* p95_latency
C16_LatencyRanking ==
    LatenciesResolved =>
        \A i \in 1..(Len(last.redis.evs) - 1) :
            last.redis.evs[i].p95_latency >= last.redis.evs[i + 1].p95_latency

\* C16 witness: tenant b, whose event is the oldest of the window, has p95
\* 51 and is ranked after tenant a with p95 100
C16_Witness ==
    /\ LatenciesResolved
    /\ Len(last.redis.evs) = 2
    /\ EventPool[13] \in WindowEvents
    /\ last.redis.evs[1].tenant_id = "a"
    /\ last.redis.evs[1].p95_latency = 100
    /\ last.redis.evs[2].tenant_id = "b"
    /\ last.redis.evs[2].p95_latency = 51

\* the tenants of the entries of the last result
ResultTenants == {last.redis.evs[i].tenant_id : i \in 1..Len(last.redis.evs)}

RECURSIVE TotalRequests(_)
TotalRequests(metrics) ==
    IF metrics = <<>> THEN 0
    ELSE Head(metrics).total_requests + TotalRequests(Tail(metrics))

RECURSIVE TotalErrors(_)
TotalErrors(metrics) ==
    IF metrics = <<>> THEN 0
    ELSE Head(metrics).error_count + TotalErrors(Tail(metrics))

\* the events of the window that carry a tenant_id
WithTenant == {e \in ReadWindow : e.tenant_id \notin {"", Missing}}

\* C17: no entry of a result of either aggregation has an empty or missing
\* tenant_id, and the events without tenant_id are counted for no tenant:
\* the total_requests and error_count of an untruncated error result add up
\* to the window events that carry a tenant_id and to the errors among them
C17_EmptyTenantLeftOut ==
    /\ ErrorsResolved \/ LatenciesResolved =>
           /\ "" \notin ResultTenants
           /\ Missing \notin ResultTenants
           /\ TotalRequests(last.redis.evs) <= Cardinality(WithTenant)
    /\ ErrorsResolved /\ last.limit >= Cardinality(ErrorTenants) =>
           /\ TotalRequests(last.redis.evs) = Cardinality(WithTenant)
           /\ TotalErrors(last.redis.evs) =
                  Cardinality({e \in WithTenant : e.status_code.k = "num"
                                                  /\ e.status_code.v >= 500})

\* C17 witness: the window holds the event with tenant_id "" and status 500
\* next to events of two tenants, and the untruncated error result has
\* two entries
C17_Witness ==
    /\ ErrorsResolved
    /\ EventPool[14] \in ReadWindow
    /\ last.limit >= 2
    /\ Cardinality(ErrorTenants) = 2
    /\ Len(last.redis.evs) = 2

\* C18 as claimed: a call of either aggregation function resolves to a
\* list, never rejects, and the list is empty when the window holds no
\* event or when the store fails while the window is read
C18_AggregationNeverRejects ==
    last.op \in {"aggregateErrorMetrics", "aggregateLatencyMetrics"} =>
        /\ last.redis.st = "ok"
        /\ WindowEvents = {} \/ ~StorageReachable => last.redis.evs = <<>>

\* an event that passes the validation of the ingestion route and carries
\* a timestamp that parses
ValidEvent(e) == ~LacksRequired(e) /\ e.timestamp.k = "iso"

\* windowMinutes = w covers the timestamp of e at the instant t
Covers(e, w, t) == e.timestamp.k = "iso" /\ e.timestamp.ms >= t - w * 60000

\* the Redis store holds the member written for e
HeldByRedis(e, z) == \E x \in z : x.member = JSONstringify(e)

\* e with null in the place of a NaN status_code or latency_ms
NaNAsNull(e) ==
    [e EXCEPT !.status_code = IF @.k = "nan" THEN Null ELSE @,
              !.latency_ms = IF @.k = "nan" THEN Null ELSE @]

\* what getEventsInWindow(w) of the two stores returns in the state reached
ReadMem(w) == EventBuffer_getEventsInWindow(events', now', w)

ReadRedis(w) ==
    RedisEventBuffer_getEventsInWindow(zset', now', ready', redisUp', w).evs

BothEmpty(evs, z) ==
    /\ EventBuffer_getEventCount(evs) = 0
    /\ EventBuffer_getAllEvents(evs) = <<>>
    /\ ZCard(z) = 0
    /\ ZRange(z) = <<>>

\* C20 as claimed: clear() resolves and leaves the store empty whatever it
\* held before, and so does a second clear() right after it
C20_ClearEmpties ==
    [][/\ last'.op = "clear" =>
              last'.redis.st = "ok" /\ BothEmpty(events', zset')
       /\ last.op = "clear" /\ last'.op = "clear" =>
              /\ BothEmpty(events, zset)
              /\ last'.redis.st = "ok" /\ BothEmpty(events', zset')
      ]_vars

\* C21 as claimed: a constructed store has its timer armed until
\* stopCleanup() is called (the Redis store once it has connected), and
\* after stopCleanup() has returned, at whatever point after construction
\* it was called, no timer callback of that store runs
C21_StopIsFinal ==
    /\ "memory" \notin stopped => cleanupTimer.mem = "armed"
    /\ ready = "resolved" /\ "redis" \notin stopped =>
           cleanupTimer.redis = "armed"
    /\ last.op = "EventBuffer.sweep" => "memory" \notin stopped
    /\ last.op = "RedisEventBuffer.sweep" => "redis" \notin stopped

\* the Redis store holds an event behind the retention horizon
StaleInRedis == \E x \in zset : x.score < now - retentionMs

\* the in-memory store holds an event behind the retention horizon
StaleInMemory ==
    \E i \in 1..Len(events) : Before(events[i], now - retentionMs)

\* C22: a timer callback of the Redis store whose cleanup met a storage
\* error raises nothing, leaves the timer armed, and the next callback can
\* run
C22_FailedSweepKeepsTimer ==
    last.op = "RedisEventBuffer.sweep" /\ last.fault # "none" =>
        /\ last.redis = Res("ok", <<>>, 0)
        /\ cleanupTimer.redis = "armed"
        /\ ENABLED RedisEventBuffer_sweep

\* C22 witness: a sweep failed on a store that holds an event behind the
\* horizon, and the timer is armed
C22_Witness ==
    /\ last.op = "RedisEventBuffer.sweep"
    /\ last.fault = "cmd"
    /\ StaleInRedis
    /\ cleanupTimer.redis = "armed"
    /\ "redis" \notin stopped

\* C23: at the end of a sweep of the in-memory store, and of a sweep of the
\* Redis store that reached Redis, no event behind the retention horizon is
\* left; and while a timer is armed (and Redis reachable) an event behind
\* the horizon is eventually removed
C23_StaleEventuallySwept ==
    /\ [](last.op = "EventBuffer.sweep" => ~StaleInMemory)
    /\ [](last.op = "RedisEventBuffer.sweep" /\ last.fault = "none" =>
              ~StaleInRedis)
    /\ (StaleInMemory /\ cleanupTimer.mem = "armed")
           ~> (~StaleInMemory \/ cleanupTimer.mem # "armed")
    /\ (StaleInRedis /\ cleanupTimer.redis = "armed" /\ redisUp)
           ~> (~StaleInRedis \/ cleanupTimer.redis # "armed" \/ ~redisUp)

\* C23 witness: a sweep of the in-memory store has removed the event that
\* the Redis store, not swept yet, still holds behind the horizon
C23_Witness ==
    /\ last.op = "EventBuffer.sweep"
    /\ last.mem.n = 1
    /\ ~StaleInMemory
    /\ StaleInRedis
    /\ cleanupTimer.redis = "armed"
    /\ redisUp

\* ceil(2 * retentionMs / 1000): the least number of seconds that covers
\* twice the retention period
TwoRetentionsSeconds ==
    CHOOSE s \in 0..(2 * RetentionMinutes * 60) :
        /\ 1000 * s >= 2 * RetentionMinutes * 60000
        /\ \A r \in 0..(s - 1) : 1000 * r < 2 * RetentionMinutes * 60000

\* C24: every addEvent on the Redis store that resolved leaves the key with
\* an expiration of ceil(2 * retentionMs / 1000) seconds from now, a key
\* that holds events never outlives its expiration, and when the clock
\* reaches the expiration the whole collection is deleted
C24_TtlRefreshed ==
    [][/\ last'.op = "addEvent" /\ last'.redis.st = "ok" =>
              ttl' = now' + TwoRetentionsSeconds * 1000
       /\ ttl' # NoTTL => now' < ttl' /\ zset' # {}
       /\ now' > now /\ ttl # NoTTL /\ now' >= ttl =>
              zset # {} /\ zset' = {} /\ ttl' = NoTTL
      ]_vars

\* C24 witness: the second insert, made after the clock advanced, has moved
\* the expiration of the key to twice the retention after the new instant
C24_Witness ==
    /\ last.op = "addEvent"
    /\ last.redis.st = "ok"
    /\ now > StartMs
    /\ ZCard(zset) = 2
    /\ ttl = now + 2 * retentionMs

\* C25: reconnectStrategy returns, for every attempt number from 1 to 10,
\* a delay of at most 3000 ms, and for every number above 10 an Error; it
\* returns a delay or an Error for every number the client passes, and the
\* client makes no attempt after the Error
C25_ReconnectBounded ==
    /\ retries <= 12
    /\ last.op = "reconnectStrategy" =>
           /\ last.result.k \in {"delay", "error"}
           /\ last.retries \in 1..10 =>
                  /\ last.result.k = "delay"
                  /\ last.result.ms >= 0
                  /\ last.result.ms <= 3000
           /\ last.retries > 10 => last.result.k = "error"
           /\ last.result.k = "error" => retries = 12 /\ ~ENABLED reconnectAttempt

\* C25 witness: after ten delays the strategy was called with 11 and
\* returned the Error
C25_Witness ==
    /\ last.op = "reconnectStrategy"
    /\ last.retries = 11
    /\ last.result.k = "error"
    /\ ~redisUp

RECURSIVE PowerOfTwo(_)
PowerOfTwo(n) == IF n = 0 THEN 1 ELSE 2 * PowerOfTwo(n - 1)

\* C26 as claimed: the delay of attempt r is 100 ms doubled r - 1 times,
\* 100, 200, 400, ..., until the cap of 3000 ms is reached
C26_DelaysDouble ==
    last.op = "reconnectStrategy" /\ last.retries \in 1..10 =>
        /\ last.result.k = "delay"
        /\ last.result.ms =
               IF 100 * PowerOfTwo(last.retries - 1) < 3000
               THEN 100 * PowerOfTwo(last.retries - 1) ELSE 3000

\* the text is an integer numeral: an optional minus sign, then digits only
IsIntegerText(s) ==
    LET ds == IF s # <<>> /\ Head(s) = "-" THEN Tail(s) ELSE s
    IN  ds # <<>> /\ \A i \in 1..Len(ds) : ds[i] \in Digits

\* the text is a decimal numeral: an integer numeral, a point, digits
IsDecimalText(s) ==
    \E i \in 2..(Len(s) - 1) :
        /\ s[i] = "."
        /\ IsIntegerText(SubSeq(s, 1, i - 1))
        /\ \A j \in (i + 1)..Len(s) : s[j] \in Digits

\* the value of an integer numeral, read digit by digit from the left
RECURSIVE NumeralValue(_, _)
NumeralValue(s, acc) ==
    IF s = <<>> THEN acc
    ELSE IF Head(s) = "-" THEN 0 - NumeralValue(Tail(s), acc)
    ELSE NumeralValue(Tail(s), 10 * acc + DigitValue(Head(s)))

\* the integer part of an integer or decimal numeral
IntegerPart(s) ==
    IF IsIntegerText(s) THEN NumeralValue(s, 0)
    ELSE LET i == CHOOSE i \in 1..Len(s) : s[i] = "."
         IN  NumeralValue(SubSeq(s, 1, i - 1), 0)

\* what the routes are claimed to pass for a query text
PassedFor(s, dflt) ==
    IF s = QueryAbsent \/ ~(IsIntegerText(s) \/ IsDecimalText(s)) THEN dflt
    ELSE IF IntegerPart(s) = 0 THEN dflt
    ELSE IntegerPart(s)

NegativeWindowResolved ==
    /\ last.op \in {"aggregateErrorMetrics", "aggregateLatencyMetrics"}
    /\ last.windowMinutes < 0
    /\ last.redis.st = "ok"

SoundMember(member) ==
    /\ ~JSONparse_throws(member)
    /\ WellFormed(JSONparse(member))

\* the members of the range that the last read asked for
MembersInRange ==
    IF last.op = "getAllEvents" THEN {x.member : x \in zset}
    ELSE {x.member : x \in {y \in zset :
                              y.score >= now - last.windowMinutes * 60000}}

\* C29: getEventsInWindow and getAllEvents of the Redis store resolve also
\* when the sorted set holds members that are not JSON or lack timestamp or
\* tenant_id; with storage reachable they return the event of every sound
\* member of the range, once, and nothing for the other members
C29_CorruptMembersSkipped ==
    last.op \in {"getEventsInWindow", "getAllEvents"} /\ StorageReachable =>
        /\ last.redis.st = "ok"
        /\ \A e \in Range(last.redis.evs) : WellFormed(e)
        /\ redisUp =>
               /\ Range(last.redis.evs) =
                      {JSONparse(m) : m \in {x \in MembersInRange : SoundMember(x)}}
               /\ Len(last.redis.evs) =
                      Cardinality({x \in MembersInRange : SoundMember(x)})

\* C29 witness: getAllEvents returns the one event of a sorted set that
\* also holds a text that is not JSON and an object without tenant_id
C29_Witness ==
    /\ last.op = "getAllEvents"
    /\ last.redis.st = "ok"
    /\ Len(last.redis.evs) = 1
    /\ ZCard(zset) = 3
    /\ \E x \in zset : JSONparse_throws(x.member)
    /\ \E x \in zset : x.member = JSONstringify(EventPool[5])

\* the calls of the batch that have resolved
Resolved == {c \in pending : c.pc = "resolved"}

\* every call of the batch resolved, and no event of the batch was in the
\* store when the batch began
BatchResolved ==
    /\ pending # {}
    /\ \A c \in pending : c.pc = "resolved" /\ ~c.held

\* C30: of addEvent calls for distinct events in flight at once, whatever
\* the order in which their awaits resume and whatever getEventCount reads
\* run in between, a call rejects only when initialization failed or Redis
\* does not answer its command; a getEventCount in between returns at
\* least the prior count plus the number of calls resolved so far and at
\* most the prior count plus n; and once all n calls have resolved
\* getEventCount returns the prior count plus n
C30_ConcurrentAdds ==
    /\ [][\A c \in pending' :
              c.pc = "rejected" /\ c \notin pending
                  => ready = "rejected" \/ ~redisUp]_vars
    /\ [](/\ last.op = "getEventCount"
          /\ last.redis.st = "ok"
          /\ redisUp
          /\ \A c \in pending : ~c.held
          => \A c \in pending :
                 /\ last.redis.n >= c.prior + Cardinality(Resolved)
                 /\ last.redis.n <= c.prior + Cardinality(pending))
    /\ [](BatchResolved /\ redisUp =>
              \A c \in pending :
                  RedisEventBuffer_getEventCount(zset, ready, redisUp).n
                      = c.prior + Cardinality(pending))

\* C30 witness: a batch of three calls, begun on a store that held one
\* event, has resolved, and getEventCount returned four
C30_Witness ==
    /\ BatchResolved
    /\ Cardinality(pending) = 3
    /\ \A c \in pending : c.prior = 1
    /\ last.op = "getEventCount"
    /\ last.redis = Res("ok", <<>>, 4)

\* the timestamp of the event is not behind the retention horizon
WithinRetention(event) == AtOrAfter(event, now - retentionMs)

\* cleanup and every addEvent called next to it have finished
RaceFinished ==
    /\ \E c \in pending : c.pc = "cleanup.done"
    /\ \A c \in pending : ~InFlight(c) /\ ~CleanupInFlight(c)

\* C31 as claimed: once cleanup() and the addEvent calls that ran next to
\* it have finished, whatever the order of their steps, every event within
\* the retention horizon whose addEvent resolved is in the Redis store, and
\* every such event the in-memory store was given is in the in-memory store
C31_CleanupKeepsFresh ==
    RaceFinished =>
        \A c \in pending :
            c.pc = "resolved" /\ WithinRetention(c.event) =>
                /\ HeldByRedis(c.event, zset)
                /\ c.event \in Range(events)

\* C32: a call of aggregateErrorMetrics or aggregateLatencyMetrics leaves
\* the store as it was: the same members under the same scores and
\* expiration, the same events in the same order from getAllEvents and the
\* same getEventCount, and the in-memory store untouched
C32_AggregationReadOnly ==
    [][last'.op \in {"aggregateErrorMetrics", "aggregateLatencyMetrics"} =>
           /\ zset' = zset
           /\ ttl' = ttl
           /\ events' = events
           /\ RedisEventBuffer_getAllEvents(zset', ready', redisUp')
                  = RedisEventBuffer_getAllEvents(zset, ready, redisUp)
           /\ RedisEventBuffer_getEventCount(zset', ready', redisUp')
                  = RedisEventBuffer_getEventCount(zset, ready, redisUp)
      ]_vars

\* C32 witness: an error aggregation ranked two tenants from a store that
\* holds three events
C32_Witness ==
    /\ last.op = "aggregateErrorMetrics"
    /\ last.redis.st = "ok"
    /\ Len(last.redis.evs) = 2
    /\ ZCard(zset) = 3

\* the minutes the caller gave, or the documented default
MinutesGiven(arg, dflt) == IF arg = Absent THEN dflt ELSE arg.v

\* C33: createEventBuffer returns the Redis store exactly when EVENT_STORAGE
\* is the string redis, and the in-memory store when it is unset or
\* anything else; the store has the retention and the cleanup interval the
\* caller gave, 15 minutes and 1 minute where the caller gave none
C33_FactorySelects ==
    last.op = "createEventBuffer" =>
        /\ last.store.impl = "redis" <=> last.env = "redis"
        /\ last.store.impl = "memory" <=> last.env # "redis"
        /\ last.store.retentionMs = MinutesGiven(last.retentionMinutes, 15) * 60000
        /\ last.store.cleanupIntervalMs =
               MinutesGiven(last.cleanupIntervalMinutes, 1) * 60000

\* C33 witness: with the flag set to REDIS the factory returned the
\* in-memory store, with 30 minutes of retention and the default interval
C33_Witness ==
    /\ last.op = "createEventBuffer"
    /\ last.env = "REDIS"
    /\ last.store = [impl |-> "memory", retentionMs |-> 1800000,
                     cleanupIntervalMs |-> 60000]

\* the path goes on from the prefix
Under(path, prefix) ==
    \E n \in 0..Len(path) :
        path = prefix \o SubSeq(path, Len(path) - n + 1, Len(path))

\* the middleware is enabled for the request and the path is not one of
\* the ingestion or analytics endpoints
Tracked(c) ==
    /\ c.enabled \in {"absent", "true"}
    /\ ~Under(c.path, EventsPrefix)
    /\ ~Under(c.path, AnalyticsPrefix)

\* C34: for a request whose response has finished the middleware has sent
\* exactly one event when it is enabled and the path starts with neither
\* /api/v1/events nor /api/v1/analytics, and none otherwise; it has sent
\* none before the response finishes; and it has called next() exactly
\* once for every request it ran for
C34_OneEventPerResponse ==
    \A c \in pending :
        /\ c.pc = "received" => c.nextCalls = 0 /\ c.sent = 0
        /\ c.pc # "received" => c.nextCalls = 1
        /\ c.pc \in {"handling", "aborted"} => c.sent = 0
        /\ c.pc = "finished" => c.sent = IF Tracked(c) THEN 1 ELSE 0

\* C34 witness: of two finished responses the one for /api/v1/users led to
\* one event and the one for /api/v1/eventsource to none
C34_Witness ==
    /\ \E c \in pending :
           /\ c.pc = "finished"
           /\ c.path = EventsPrefix \o <<"o", "u", "r", "c", "e">>
           /\ c.enabled = "true"
           /\ c.sent = 0
    /\ \E c \in pending :
           /\ c.pc = "finished"
           /\ c.enabled = "absent"
           /\ Tracked(c)
           /\ c.sent = 1

\* C35 as claimed: an addEvent that rejects leaves the store unchanged: the
\* event was not written, and getEventCount and getAllEvents return what
\* they returned before the call
C35_RejectedAddLeavesStore ==
    [][last'.op = "addEvent" /\ last'.redis.st = "rejected" =>
           /\ zset' = zset
           /\ ZCard(zset') = ZCard(zset)
           /\ ZRange(zset') = ZRange(zset)
      ]_vars

\* what getEventsInWindow of the ingestion store returns, in the state
\* reached, for a window that reaches back before every timestamp
ReadLargeWindow ==
    Range(RedisEventBuffer_getEventsInWindow(zset', now', ready', redisUp', 10).evs)

\* C36 as claimed: an event for which POST /api/v1/events answered 201 is
\* returned by getEventsInWindow for a large window right after, and at
\* every later step that leaves it in the store; only cleanup and clear take
\* such an event out of the store, and cleanup only when its timestamp is
\* before now - retentionMs
C36_AcceptedEventsKept ==
    [][/\ last'.op = "postEvents" /\ last'.status = 201 =>
              JSONparse(JSONstringify(last'.event)) \in ReadLargeWindow
       /\ redisUp' /\ ready' = "resolved" =>
              \A x \in zset' : JSONparse(x.member) \in ReadLargeWindow
       /\ \A x \in zset :
              (\A y \in zset' : y.member # x.member) =>
                  /\ last'.op \in {"cleanup", "clear"}
                  /\ last'.op = "cleanup" => x.score < now' - retentionMs
      ]_vars

\* C37 as claimed: whenever the storage is reachable, getEventCount() is
\* the number of events that getAllEvents() returns, in both stores
C37_CountMatchesAll ==
    /\ EventBuffer_getEventCount(events) = Len(EventBuffer_getAllEvents(events))
    /\ ready = "resolved" /\ redisUp =>
           RedisEventBuffer_getEventCount(zset, ready, redisUp).n
               = Len(RedisEventBuffer_getAllEvents(zset, ready, redisUp).evs)

\* C38 as claimed: a result of aggregateErrorMetrics or
\* aggregateLatencyMetrics never has more than max(limit, 0) entries, so it
\* is empty for a limit of 0 or less
C38_LimitCapsResult ==
    ErrorsResolved \/ LatenciesResolved =>
        Len(last.redis.evs) <= IF last.limit > 0 THEN last.limit ELSE 0

\* the latency of an event rounded to the nearest integer, a half going up
RoundedLatency(e) == (Halves(e) + 1) \div 2

\* C39: in every entry of an aggregation result total_requests >= 1; in an
\* error entry 0 <= error_count <= total_requests and 0 <= error_rate <= 1;
\* in a latency entry p95_latency lies between the rounded smallest and the
\* rounded largest valid latency of the tenant; no tenant_id appears twice;
\* and the total_requests of an untruncated error result add up to the
\* number of window events with a non-empty tenant_id
C39_EntryInvariants ==
    /\ ErrorsResolved \/ LatenciesResolved =>
           /\ \A i \in 1..Len(last.redis.evs) :
                  last.redis.evs[i].total_requests >= 1
           /\ \A i, j \in 1..Len(last.redis.evs) :
                  i # j => last.redis.evs[i].tenant_id # last.redis.evs[j].tenant_id
    /\ ErrorsResolved =>
           /\ \A i \in 1..Len(last.redis.evs) :
                  LET m == last.redis.evs[i]
                  IN  /\ 0 <= m.error_count
                      /\ m.error_count <= m.total_requests
                      /\ m.error_rate.k = "num"
                      /\ JsGE(m.error_rate, Num(0))
                      /\ JsGE(Num(1), m.error_rate)
           /\ last.limit >= Cardinality(ErrorTenants) =>
                  TotalRequests(last.redis.evs) =
                      Cardinality({e \in ReadWindow : e.tenant_id # ""})
    /\ LatenciesResolved =>
           \A i \in 1..Len(last.redis.evs) :
               LET m == last.redis.evs[i]
                   valid == ValidOf(m.tenant_id)
               IN  /\ valid # {}
                   /\ \A e \in valid :
                          (\A x \in valid : Halves(e) <= Halves(x))
                              => RoundedLatency(e) <= m.p95_latency
                   /\ \A e \in valid :
                          (\A x \in valid : Halves(x) <= Halves(e))
                              => m.p95_latency <= RoundedLatency(e)

\* C39 witness: an untruncated error result over a window of three events
\* of two tenants, one of them reported with two requests and one error
C39_Witness ==
    /\ ErrorsResolved
    /\ last.limit = 3
    /\ Cardinality(ReadWindow) = 3
    /\ Len(last.redis.evs) = 2
    /\ \E i \in 1..2 :
           /\ last.redis.evs[i].total_requests = 2
           /\ last.redis.evs[i].error_count = 1

\* the clients that were created and not ended
LiveClients ==
    {c \in 1..Len(ready.connect) : ready.connect[c] # "quit"}

\* C40: a call of getRedisClient that resolves, resolves to a client whose
\* connect() has resolved, whatever calls run next to it and whatever a
\* connect() before it did; and no two clients are live together
C40_OnlyConnectedClients ==
    /\ last.op = "getRedisClient" /\ last.redis.st = "ok" =>
           /\ last.redis.n # NoClient
           /\ last.redis.evs = <<"resolved">>
    /\ Cardinality(LiveClients) <= 1

=============================================================================
